---- MODULE Spec2Model ----
(***************************************************************************)
(* GenOS orchestration core: ResourcePool, the provisioning queue, the      *)
(* worker tasks of OrchestrationEngine and the VM / container managers      *)
(* (backend/orchestration/engine.py, backend/runtime/*.py).                 *)
(*                                                                          *)
(* The engine runs on one asyncio event loop: control passes from one       *)
(* coroutine to another only at an await that really suspends.  Every       *)
(* action below is the code that runs between two such suspensions.         *)
(***************************************************************************)
EXTENDS Integers, Sequences, FiniteSets, TLC

(***************************************************************************)
(* Python dictionaries are functions whose DOMAIN is the set of keys.       *)
(***************************************************************************)
EmptyDict == [k \in {} |-> 0]

Put(d, k, v) == [x \in (DOMAIN d) \cup {k} |-> IF x = k THEN v ELSE d[x]]

Del(d, k) == [x \in (DOMAIN d) \ {k} |-> d[x]]

(***************************************************************************)
(* ResourcePool                                                             *)
(***************************************************************************)
max_cpu_cores == 16

max_memory_mb == 32768

max_disk_gb == 1000

\* ResourcePool.__init__: nothing allocated, no reservation.
NewPool ==
    [allocated_cpu |-> 0, allocated_memory |-> 0, allocated_disk |-> 0,
     active_environments |-> EmptyDict]

\* can_allocate without its cpu clause.
can_allocate_cpu_unchecked(p, cpu, memory, disk) ==
    /\ p.allocated_memory + memory <= max_memory_mb
    /\ p.allocated_disk + disk <= max_disk_gb

\* can_allocate looking at the disk only.
can_allocate_disk_only(p, cpu, memory, disk) ==
    p.allocated_disk + disk <= max_disk_gb

\* An admission test that refuses a request that fills a resource exactly.
can_allocate_strict(p, cpu, memory, disk) ==
    /\ p.allocated_cpu + cpu < max_cpu_cores
    /\ p.allocated_memory + memory < max_memory_mb
    /\ p.allocated_disk + disk < max_disk_gb

can_allocate(p, cpu, memory, disk) ==
    /\ p.allocated_cpu + cpu <= max_cpu_cores
    /\ p.allocated_memory + memory <= max_memory_mb
    /\ p.allocated_disk + disk <= max_disk_gb

\* allocate committing each quantity as soon as that quantity alone fits.
allocate_partial(p, env_id, cpu, memory, disk) ==
    LET fits == /\ p.allocated_cpu + cpu <= max_cpu_cores
                /\ p.allocated_memory + memory <= max_memory_mb
                /\ p.allocated_disk + disk <= max_disk_gb
    IN  [pool |-> [allocated_cpu |->
                       IF p.allocated_cpu + cpu <= max_cpu_cores
                       THEN p.allocated_cpu + cpu ELSE p.allocated_cpu,
                   allocated_memory |->
                       IF fits THEN p.allocated_memory + memory ELSE p.allocated_memory,
                   allocated_disk |->
                       IF fits THEN p.allocated_disk + disk ELSE p.allocated_disk,
                   active_environments |->
                       IF fits
                       THEN Put(p.active_environments, env_id,
                                [cpu |-> cpu, memory |-> memory, disk |-> disk])
                       ELSE p.active_environments],
         ret |-> fits]

\* allocate returns the pool after the call and the value returned.
allocate(p, env_id, cpu, memory, disk) ==
    IF can_allocate(p, cpu, memory, disk)
    THEN [pool |-> [allocated_cpu |-> p.allocated_cpu + cpu,
                    allocated_memory |-> p.allocated_memory + memory,
                    allocated_disk |-> p.allocated_disk + disk,
                    active_environments |->
                        Put(p.active_environments, env_id,
                            [cpu |-> cpu, memory |-> memory, disk |-> disk])],
          ret |-> TRUE]
    ELSE [pool |-> p, ret |-> FALSE]

\* deallocate that forgets to give the disk back.
deallocate_keeps_disk(p, env_id) ==
    IF env_id \in DOMAIN p.active_environments
    THEN LET resources == p.active_environments[env_id]
         IN  [pool |-> [allocated_cpu |-> p.allocated_cpu - resources.cpu,
                        allocated_memory |-> p.allocated_memory - resources.memory,
                        allocated_disk |-> p.allocated_disk,
                        active_environments |-> Del(p.active_environments, env_id)],
              ret |-> TRUE]
    ELSE [pool |-> p, ret |-> FALSE]

deallocate(p, env_id) ==
    IF env_id \in DOMAIN p.active_environments
    THEN LET resources == p.active_environments[env_id]
         IN  [pool |-> [allocated_cpu |-> p.allocated_cpu - resources.cpu,
                        allocated_memory |-> p.allocated_memory - resources.memory,
                        allocated_disk |-> p.allocated_disk - resources.disk,
                        active_environments |-> Del(p.active_environments, env_id)],
              ret |-> TRUE]
    ELSE [pool |-> p, ret |-> FALSE]

\* A utilization that reports the share that is still free.
get_utilization_free(p) ==
    [cpu_percent |-> [num |-> (max_cpu_cores - p.allocated_cpu) * 100, den |-> max_cpu_cores],
     memory_percent |-> [num |-> (max_memory_mb - p.allocated_memory) * 100,
                         den |-> max_memory_mb],
     disk_percent |-> [num |-> (max_disk_gb - p.allocated_disk) * 100, den |-> max_disk_gb]]

\* get_utilization: (allocated / max) * 100 is a float in the source; the
\* model keeps the exact rational as the numerator over the capacity.
get_utilization(p) ==
    [cpu_percent |-> [num |-> p.allocated_cpu * 100, den |-> max_cpu_cores],
     memory_percent |-> [num |-> p.allocated_memory * 100, den |-> max_memory_mb],
     disk_percent |-> [num |-> p.allocated_disk * 100, den |-> max_disk_gb]]

(***************************************************************************)
(* Strings that the code inspects character by character (base_os) are      *)
(* sequences of one-character strings.                                      *)
(***************************************************************************)
UpperToLower ==
    [c \in {"A", "B", "C", "D", "E", "F", "G", "H", "I", "J", "K", "L", "M",
            "N", "O", "P", "Q", "R", "S", "T", "U", "V", "W", "X", "Y", "Z"} |->
       CASE c = "A" -> "a" [] c = "B" -> "b" [] c = "C" -> "c" [] c = "D" -> "d"
         [] c = "E" -> "e" [] c = "F" -> "f" [] c = "G" -> "g" [] c = "H" -> "h"
         [] c = "I" -> "i" [] c = "J" -> "j" [] c = "K" -> "k" [] c = "L" -> "l"
         [] c = "M" -> "m" [] c = "N" -> "n" [] c = "O" -> "o" [] c = "P" -> "p"
         [] c = "Q" -> "q" [] c = "R" -> "r" [] c = "S" -> "s" [] c = "T" -> "t"
         [] c = "U" -> "u" [] c = "V" -> "v" [] c = "W" -> "w" [] c = "X" -> "x"
         [] c = "Y" -> "y" [] c = "Z" -> "z"]

\* str.lower()
lower(s) ==
    [i \in 1..Len(s) |-> IF s[i] \in DOMAIN UpperToLower THEN UpperToLower[s[i]] ELSE s[i]]

\* sub in s
contains(s, sub) ==
    \E i \in 1..(Len(s) - Len(sub) + 1) : SubSeq(s, i, i + Len(sub) - 1) = sub

StrWindows == <<"w", "i", "n", "d", "o", "w", "s">>

StrMacos == <<"m", "a", "c", "o", "s">>

StrUbuntu2204 == <<"u", "b", "u", "n", "t", "u", "_", "2", "2", ".", "0", "4">>

(***************************************************************************)
(* EnvironmentSpec and the provisioning strategy                            *)
(***************************************************************************)
VM_ONLY == "vm_only"

CONTAINER_ONLY == "container_only"

simple_apps == {"firefox", "chrome", "terminal", "python", "nodejs"}

\* A selection that looks at the applications before the resources.
_determine_strategy_apps_first(spec) ==
    IF spec.gpu_enabled THEN VM_ONLY
    ELSE IF contains(lower(spec.base_os), StrWindows)
            \/ contains(lower(spec.base_os), StrMacos) THEN VM_ONLY
    ELSE IF \A i \in 1..Len(spec.apps) : spec.apps[i] \in simple_apps THEN CONTAINER_ONLY
    ELSE VM_ONLY

_determine_strategy(spec) ==
    IF spec.gpu_enabled THEN VM_ONLY
    ELSE IF contains(lower(spec.base_os), StrWindows)
            \/ contains(lower(spec.base_os), StrMacos) THEN VM_ONLY
    ELSE IF spec.memory_mb > 4096 \/ spec.cpu_cores > 4 THEN VM_ONLY
    ELSE IF \A i \in 1..Len(spec.apps) : spec.apps[i] \in simple_apps THEN CONTAINER_ONLY
    ELSE VM_ONLY

\* The specifications callers submit: a light one (container-backed) and a
\* heavy one (VM-backed, half of the pool's cpu and memory).
SmallSpec ==
    [base_os |-> StrUbuntu2204, apps |-> <<"firefox">>, memory_mb |-> 2048,
     cpu_cores |-> 2, disk_gb |-> 20, gpu_enabled |-> FALSE]

LargeSpec ==
    [base_os |-> StrUbuntu2204, apps |-> <<"firefox">>, memory_mb |-> 16384,
     cpu_cores |-> 8, disk_gb |-> 100, gpu_enabled |-> FALSE]

EnvIds == {"e1", "e2"}

\* The create_environment calls callers make: e1 is requested with the
\* heavy specification, e2 with the light one.
Requests ==
    {[env_id |-> "e1", spec |-> LargeSpec, user_id |-> 1],
     [env_id |-> "e2", spec |-> SmallSpec, user_id |-> 2]}

(***************************************************************************)
(* EnvironmentStatus                                                        *)
(***************************************************************************)
REQUESTED == "requested"

PROVISIONING == "provisioning"

RUNNING == "running"

SUSPENDED == "suspended"

TERMINATED == "terminated"

ERROR == "error"

\* Python's None for instance ids, ports and error texts.
None == 0

\* A coroutine's return value as the caller sees it.
Bool(b) == IF b THEN "True" ELSE "False"

(***************************************************************************)
(* VMManager and ContainerManager bookkeeping.  A manager is a record       *)
(* [instances, allocated_ports]: the vms / containers dictionary and the    *)
(* allocated_ports dictionary, both keyed by instance id.                   *)
(***************************************************************************)
streaming_port_range_start == 5900

streaming_port_range_end == 5999

\* VMManager.__init__: list(range(start, end + 1))
vm_streaming_port_pool == streaming_port_range_start..streaming_port_range_end

\* ContainerManager.__init__: list(range(start + 1000, end + 1000))
container_streaming_port_pool ==
    (streaming_port_range_start + 1000)..(streaming_port_range_end + 1000 - 1)

NewManager == [instances |-> EmptyDict, allocated_ports |-> EmptyDict]

FreePorts(port_pool, allocated_ports) ==
    {port \in port_pool : \A k \in DOMAIN allocated_ports : allocated_ports[k] # port}

\* An allocation that hands out the first port of the pool without looking
\* at the ports already taken.
_allocate_streaming_port_unchecked(port_pool, allocated_ports, instance_id) ==
    LET port == CHOOSE q \in port_pool : \A o \in port_pool : q <= o
    IN  [ok |-> TRUE, port |-> port,
         allocated_ports |-> Put(allocated_ports, instance_id, port)]

\* _allocate_streaming_port: the first port of the pool that no instance
\* holds; ok = FALSE stands for RuntimeError("No available streaming ports").
_allocate_streaming_port(port_pool, allocated_ports, instance_id) ==
    LET free == FreePorts(port_pool, allocated_ports)
    IN  IF free = {}
        THEN [ok |-> FALSE, port |-> None, allocated_ports |-> allocated_ports]
        ELSE LET port == CHOOSE q \in free : \A o \in free : q <= o
             IN  [ok |-> TRUE, port |-> port,
                  allocated_ports |-> Put(allocated_ports, instance_id, port)]

_release_streaming_port(allocated_ports, instance_id) ==
    IF instance_id \in DOMAIN allocated_ports
    THEN Del(allocated_ports, instance_id)
    ELSE allocated_ports

NewInstance(env_id, port) ==
    [env_id |-> env_id, status |-> "created", streaming_port |-> port]

\* create_vm.  disk_ok = FALSE: _create_vm_config / _create_vm_disk raised
\* (before any port is taken).  Returns the manager afterwards and whether
\* the call returned (ok) or raised.
create_vm(m, env_id, vm_id, disk_ok) ==
    IF ~disk_ok THEN [ok |-> FALSE, m |-> m]
    ELSE LET a == _allocate_streaming_port(vm_streaming_port_pool, m.allocated_ports, vm_id)
         IN  IF ~a.ok THEN [ok |-> FALSE, m |-> m]
             ELSE [ok |-> TRUE,
                   m |-> [instances |-> Put(m.instances, vm_id, NewInstance(env_id, a.port)),
                          allocated_ports |-> a.allocated_ports]]

\* create_container.  docker_client = FALSE: "Docker not available";
\* docker_ok = FALSE: _create_docker_container raised, after the port was
\* taken.
create_container(m, env_id, container_id, docker_client, docker_ok) ==
    IF ~docker_client THEN [ok |-> FALSE, m |-> m]
    ELSE LET a == _allocate_streaming_port(container_streaming_port_pool,
                                          m.allocated_ports, container_id)
         IN  IF ~a.ok THEN [ok |-> FALSE, m |-> m]
             ELSE IF ~docker_ok
                  THEN [ok |-> FALSE, m |-> [m EXCEPT !.allocated_ports = a.allocated_ports]]
                  ELSE [ok |-> TRUE,
                        m |-> [instances |->
                                   Put(m.instances, container_id, NewInstance(env_id, a.port)),
                               allocated_ports |-> a.allocated_ports]]

\* get_streaming_port
get_streaming_port(m, instance_id) ==
    IF instance_id \in DOMAIN m.instances
    THEN m.instances[instance_id].streaming_port
    ELSE None

\* The writes start_vm / start_container / stop_vm make to the instance
\* record they looked up when the call began.  After a concurrent destroy
\* that record is no longer in the dictionary and the write is lost.
set_instance_status(m, instance_id, status) ==
    IF instance_id \in DOMAIN m.instances
    THEN [m EXCEPT !.instances[instance_id].status = status]
    ELSE m

\* The tail of destroy_vm / destroy_container: release the port, delete the
\* record.  del raises KeyError when the record is already gone.
remove_instance(m, instance_id) ==
    IF instance_id \in DOMAIN m.instances
    THEN [ok |-> TRUE,
          m |-> [instances |-> Del(m.instances, instance_id),
                 allocated_ports |-> _release_streaming_port(m.allocated_ports, instance_id)]]
    ELSE [ok |-> FALSE,
          m |-> [m EXCEPT !.allocated_ports = _release_streaming_port(@, instance_id)]]

(***************************************************************************)
(* OrchestrationEngine                                                      *)
(***************************************************************************)
\* start(): for i in range(3)
NumWorkers == 3

Workers == 1..NumWorkers

\* Bounds of the exploration: create_environment calls, and work items
\* callers enqueue altogether; as long as one environment only has been
\* created, callers may enqueue one item more (OpsBudget below).
MaxCreates == 3

MaxOps == 3

VARIABLES
    running,             \* OrchestrationEngine.running
    workers,             \* worker_tasks: where each _provisioning_worker stands
    heap,                \* every environment dictionary create_environment built
    environments,        \* OrchestrationEngine.environments: env_id -> index in heap
    provisioning_queue,  \* OrchestrationEngine.provisioning_queue
    resource_pool,       \* OrchestrationEngine.resource_pool
    vm_manager,          \* VMManager.vms and .allocated_ports
    container_manager,   \* ContainerManager.containers and .allocated_ports
    uuids,               \* instance ids in use so far (uuid4 is fresh each time; an id
                         \* whose create left no trace is not counted)
    enqueued,            \* work items put on the queue so far
    result,              \* what the call made by the latest step returned ("None": no call)
    pool_call,           \* the latest call a client made directly on the ResourcePool
                         \* (PoolSpec) or on the strategy selection (StrategySpec)
    provision_base       \* history: for each worker inside _provision_environment,
                         \* the pool's totals when its handler began, moved along
                         \* with what handlers of other environments have reserved
                         \* and released since

vars ==
    <<running, workers, heap, environments, provisioning_queue, resource_pool,
      vm_manager, container_manager, uuids, enqueued, result, pool_call,
      provision_base>>

\* A worker task: "unborn" before start(), "idle" in queue.get(), inside a
\* handler at the await named by pc, "cancelled" after stop().  env is the
\* dictionary the handler looked up when it began, instance the id it passed
\* to the manager call it is waiting in.
Worker(pc, env_id, env, kind, instance) ==
    [pc |-> pc, env_id |-> env_id, env |-> env, kind |-> kind, instance |-> instance]

Idle == Worker("idle", "", 0, "", None)

Call(name, env_id, cpu, memory, disk) ==
    [name |-> name, env_id |-> env_id, cpu |-> cpu, memory |-> memory, disk |-> disk]

NoCall == Call("", "", 0, 0, 0)

\* The worker is inside an action handler, suspended at one of its awaits.
InHandler(w) == workers[w].pc \notin {"unborn", "idle", "cancelled"}

InProvision(worker) == worker.pc \in {"create_vm", "provision_boot", "provision_start"}

Totals(p) ==
    [cpu |-> p.allocated_cpu, memory |-> p.allocated_memory, disk |-> p.allocated_disk]

NoTotals == [cpu |-> 0, memory |-> 0, disk |-> 0]

\* The environment id of the work item whose handler takes the step: the
\* item dequeued in it, or the one of the worker that moves on.
StepEnv ==
    IF provisioning_queue # <<>> /\ provisioning_queue' = Tail(provisioning_queue)
    THEN Head(provisioning_queue).env_id
    ELSE IF \E u \in Workers : InHandler(u) /\ workers'[u] # workers[u]
    THEN workers[CHOOSE u \in Workers : InHandler(u) /\ workers'[u] # workers[u]].env_id
    ELSE ""

\* provision_base after a step.
Tracked ==
    [w \in Workers |->
        IF ~InProvision(workers'[w]) THEN NoTotals
        ELSE IF ~InProvision(workers[w]) THEN Totals(resource_pool)
        ELSE IF StepEnv # workers[w].env_id
        THEN [q \in {"cpu", "memory", "disk"} |->
                 provision_base[w][q] + Totals(resource_pool')[q] - Totals(resource_pool)[q]]
        ELSE provision_base[w]]

Init ==
    /\ running = FALSE
    /\ workers = [w \in Workers |-> Worker("unborn", "", 0, "", None)]
    /\ heap = <<>>
    /\ environments = EmptyDict
    /\ provisioning_queue = <<>>
    /\ resource_pool = NewPool
    /\ vm_manager = NewManager
    /\ container_manager = NewManager
    /\ uuids = 0
    /\ enqueued = 0
    /\ result = "None"
    /\ pool_call = NoCall
    /\ provision_base = [w \in Workers |-> NoTotals]

\* OrchestrationEngine.start
start ==
    /\ ~running
    /\ \A w \in Workers : workers[w].pc = "unborn"
    /\ running' = TRUE
    /\ workers' = [w \in Workers |-> Idle]
    /\ result' = "None"
    /\ UNCHANGED <<heap, environments, provisioning_queue, resource_pool, vm_manager,
                   container_manager, uuids, enqueued, pool_call>>
    /\ provision_base' = Tracked

\* VMManager.cleanup / ContainerManager.cleanup: destroy every instance,
\* logging and skipping the ones whose destroy raises (those in kept).
cleanup(m, kept) ==
    [instances |-> [i \in (DOMAIN m.instances) \cap kept |-> m.instances[i]],
     allocated_ports |->
         [i \in (DOMAIN m.allocated_ports) \ ((DOMAIN m.instances) \ kept) |->
             m.allocated_ports[i]]]

\* A stop that clears the flag and cleans up but cancels no worker.
stop_flag_only ==
    /\ running
    /\ running' = FALSE
    /\ workers' = workers
    /\ \E kept \in SUBSET ((DOMAIN vm_manager.instances) \cup
                           (DOMAIN container_manager.instances)) :
          /\ vm_manager' = cleanup(vm_manager, kept)
          /\ container_manager' = cleanup(container_manager, kept)
    /\ result' = "None"
    /\ UNCHANGED <<heap, environments, provisioning_queue, resource_pool, uuids,
                   enqueued, pool_call>>
    /\ provision_base' = Tracked

\* OrchestrationEngine.stop: the flag, task.cancel() for every worker
\* (CancelledError ends the handler at its await: it is no Exception), then
\* the managers' cleanup.
stop ==
    /\ running
    /\ running' = FALSE
    /\ workers' = [w \in Workers |-> Worker("cancelled", "", 0, "", None)]
    /\ \E kept \in SUBSET ((DOMAIN vm_manager.instances) \cup
                           (DOMAIN container_manager.instances)) :
          /\ vm_manager' = cleanup(vm_manager, kept)
          /\ container_manager' = cleanup(container_manager, kept)
    /\ result' = "None"
    /\ UNCHANGED <<heap, environments, provisioning_queue, resource_pool, uuids,
                   enqueued, pool_call>>
    /\ provision_base' = Tracked

OpsBudget == IF Len(heap) <= 1 THEN MaxOps + 1 ELSE MaxOps

\* provisioning_queue.put on the unbounded asyncio.Queue (never suspends).
\* A queue that hands out the newest item first.
put_first(action, env_id) ==
    /\ enqueued < OpsBudget
    /\ enqueued' = enqueued + 1
    /\ provisioning_queue' = <<[action |-> action, env_id |-> env_id]>> \o provisioning_queue

put(action, env_id) ==
    /\ enqueued < OpsBudget
    /\ enqueued' = enqueued + 1
    /\ provisioning_queue' =
           Append(provisioning_queue, [action |-> action, env_id |-> env_id])

\* create_environment registering the record as PROVISIONING already.
create_environment_provisioning(env_id, spec, user_id) ==
    /\ Len(heap) < MaxCreates
    /\ enqueued < MaxOps
    /\ LET environment ==
               [id |-> env_id, user_id |-> user_id, specification |-> spec,
                strategy |-> _determine_strategy(spec), status |-> PROVISIONING,
                created_at |-> 1, utcnow |-> 1, started_at |-> None,
                stopped_at |-> None, terminated_at |-> None,
                vm_id |-> None, container_id |-> None, streaming_port |-> None,
                metadata |-> EmptyDict]
       IN  /\ heap' = Append(heap, environment)
           /\ environments' = Put(environments, env_id, Len(heap) + 1)
    /\ put("provision", env_id)
    /\ result' = "environment"
    /\ UNCHANGED <<running, workers, resource_pool, vm_manager, container_manager,
                   uuids, pool_call>>
    /\ provision_base' = Tracked

create_environment(env_id, spec, user_id) ==
    /\ Len(heap) < MaxCreates
    /\ enqueued < MaxOps
    /\ LET environment ==
               [id |-> env_id, user_id |-> user_id, specification |-> spec,
                strategy |-> _determine_strategy(spec), status |-> REQUESTED,
                created_at |-> 1, utcnow |-> 1, started_at |-> None,
                stopped_at |-> None, terminated_at |-> None,
                vm_id |-> None, container_id |-> None, streaming_port |-> None,
                metadata |-> EmptyDict]
       IN  /\ heap' = Append(heap, environment)
           /\ environments' = Put(environments, env_id, Len(heap) + 1)
    /\ put("provision", env_id)
    /\ result' = "environment"
    /\ UNCHANGED <<running, workers, resource_pool, vm_manager, container_manager,
                   uuids, pool_call>>
    /\ provision_base' = Tracked

\* None where the caller expects a dictionary (Optional[Dict]).
NoDict == [none |-> TRUE]

\* get_environment_status on the registry and the dictionaries given: a
\* copy of the registered dictionary, or None.
get_environment_status(registry, records, env_id) ==
    IF env_id \in DOMAIN registry THEN records[registry[env_id]] ELSE NoDict

\* start_environment without the check of the status.
start_environment_unguarded(env_id) ==
    /\ IF env_id \notin DOMAIN environments
       THEN /\ result' = Bool(FALSE)
            /\ UNCHANGED <<provisioning_queue, enqueued>>
       ELSE /\ put("start", env_id)
            /\ result' = Bool(TRUE)
    /\ UNCHANGED <<running, workers, heap, environments, resource_pool, vm_manager,
                   container_manager, uuids, pool_call>>
    /\ provision_base' = Tracked

start_environment(env_id) ==
    /\ IF env_id \notin DOMAIN environments
       THEN /\ result' = Bool(FALSE)
            /\ UNCHANGED <<provisioning_queue, enqueued>>
       ELSE IF heap[environments[env_id]].status # SUSPENDED
       THEN /\ result' = Bool(FALSE)
            /\ UNCHANGED <<provisioning_queue, enqueued>>
       ELSE /\ put("start", env_id)
            /\ result' = Bool(TRUE)
    /\ UNCHANGED <<running, workers, heap, environments, resource_pool, vm_manager,
                   container_manager, uuids, pool_call>>
    /\ provision_base' = Tracked

\* stop_environment without the check of the status.
stop_environment_unguarded(env_id) ==
    /\ IF env_id \notin DOMAIN environments
       THEN /\ result' = Bool(FALSE)
            /\ UNCHANGED <<provisioning_queue, enqueued>>
       ELSE /\ put("stop", env_id)
            /\ result' = Bool(TRUE)
    /\ UNCHANGED <<running, workers, heap, environments, resource_pool, vm_manager,
                   container_manager, uuids, pool_call>>
    /\ provision_base' = Tracked

\* A stop_environment that writes SUSPENDED itself when it accepts.
stop_environment_marks_suspended(env_id) ==
    /\ IF env_id \notin DOMAIN environments
       THEN /\ result' = Bool(FALSE)
            /\ UNCHANGED <<provisioning_queue, enqueued, heap>>
       ELSE IF heap[environments[env_id]].status # RUNNING
       THEN /\ result' = Bool(FALSE)
            /\ UNCHANGED <<provisioning_queue, enqueued, heap>>
       ELSE /\ put("stop", env_id)
            /\ heap' = [heap EXCEPT ![environments[env_id]].status = SUSPENDED]
            /\ result' = Bool(TRUE)
    /\ UNCHANGED <<running, workers, environments, resource_pool, vm_manager,
                   container_manager, uuids, pool_call>>
    /\ provision_base' = Tracked

stop_environment(env_id) ==
    /\ IF env_id \notin DOMAIN environments
       THEN /\ result' = Bool(FALSE)
            /\ UNCHANGED <<provisioning_queue, enqueued>>
       ELSE IF heap[environments[env_id]].status # RUNNING
       THEN /\ result' = Bool(FALSE)
            /\ UNCHANGED <<provisioning_queue, enqueued>>
       ELSE /\ put("stop", env_id)
            /\ result' = Bool(TRUE)
    /\ UNCHANGED <<running, workers, heap, environments, resource_pool, vm_manager,
                   container_manager, uuids, pool_call>>
    /\ provision_base' = Tracked

terminate_environment(env_id) ==
    /\ IF env_id \notin DOMAIN environments
       THEN /\ result' = Bool(FALSE)
            /\ UNCHANGED <<provisioning_queue, enqueued>>
       ELSE /\ put("terminate", env_id)
            /\ result' = Bool(TRUE)
    /\ UNCHANGED <<running, workers, heap, environments, resource_pool, vm_manager,
                   container_manager, uuids, pool_call>>
    /\ provision_base' = Tracked

(***************************************************************************)
(* _provisioning_worker.  Each action below is one stretch of a handler     *)
(* between two awaits that suspend: queue.get() returning a work item and   *)
(* the handler running up to its first subprocess / sleep, or a manager     *)
(* call completing and the handler running on from there.  The tasks run    *)
(* the same coroutine, so which of the idle ones the queue hands an item to *)
(* makes no difference: the lowest-numbered idle worker takes it.           *)
(***************************************************************************)
Dequeues(w, action) ==
    /\ running
    /\ workers[w].pc = "idle"
    /\ \A v \in Workers : v < w => workers[v].pc # "idle"
    /\ provisioning_queue # <<>>
    /\ Head(provisioning_queue).action = action

\* A timestamp that is written once and kept from then on.
stamp_once(h, env, field) ==
    IF h[env][field] = None
    THEN [h EXCEPT ![env][field] = h[env].utcnow + 1, ![env].utcnow = @ + 1]
    ELSE [h EXCEPT ![env].utcnow = @ + 1]

\* environment[field] = datetime.utcnow().  Time is kept per dictionary,
\* as the number of clock readings made for it: between two readings for
\* one environment the clock has moved on.  A key not written yet reads
\* None.
stamp(h, env, field) ==
    [h EXCEPT ![env][field] = h[env].utcnow + 1, ![env].utcnow = @ + 1]

\* An except block that sets ERROR but drops the error text.
set_error_silent(h, env, message) ==
    [h EXCEPT ![env].status = ERROR]

\* An except block that records the error but leaves the status alone.
set_error_keeps_status(h, env, message) ==
    [h EXCEPT ![env].metadata = Put(@, "error", message)]

\* An except block that also switches the failed environment to the VM
\* strategy.
set_error_falls_back_to_vm(h, env, message) ==
    [h EXCEPT ![env].status = ERROR, ![env].metadata = Put(@, "error", message),
              ![env].strategy = VM_ONLY]

\* The except blocks: status ERROR, metadata["error"] = str(e).
set_error(h, env, message) ==
    [h EXCEPT ![env].status = ERROR, ![env].metadata = Put(@, "error", message)]

\* _provision_environment up to the first suspension: inside create_vm
\* (qemu-img / kvm probe subprocess) for a VM, inside start_container
\* (_wait_for_container_ready) for a container.  create_security_config and
\* create_container never suspend.
_provision_environment(w) ==
    /\ Dequeues(w, "provision")
    /\ provisioning_queue' = Tail(provisioning_queue)
    /\ LET env_id == Head(provisioning_queue).env_id
           env == environments[env_id]
           spec == heap[env].specification
           provisioning ==
               [heap EXCEPT ![env].status = PROVISIONING,
                            ![env].metadata = Put(@, "security_config", "config")]
           allocated ==
               allocate(resource_pool, env_id, spec.cpu_cores, spec.memory_mb,
                        spec.disk_gb).pool
       IN  IF ~can_allocate(resource_pool, spec.cpu_cores, spec.memory_mb, spec.disk_gb)
           THEN /\ heap' = set_error(heap, env, "Insufficient resources")
                /\ UNCHANGED <<workers, resource_pool, vm_manager, container_manager,
                               uuids>>
           ELSE IF heap[env].strategy = VM_ONLY
           THEN /\ heap' = provisioning
                /\ resource_pool' = allocated
                /\ workers' = [workers EXCEPT ![w] =
                                   Worker("create_vm", env_id, env, "vm", None)]
                /\ UNCHANGED <<vm_manager, container_manager, uuids>>
           ELSE \E docker_client, docker_ok \in BOOLEAN :
                  LET container_id == uuids + 1
                      c == create_container(container_manager, env_id, container_id,
                                            docker_client, docker_ok)
                  IN  /\ uuids' = IF c.m = container_manager THEN uuids ELSE container_id
                      /\ container_manager' = c.m
                      /\ vm_manager' = vm_manager
                      /\ IF c.ok
                         THEN /\ heap' = [provisioning EXCEPT
                                              ![env].container_id = container_id]
                              /\ resource_pool' = allocated
                              /\ workers' = [workers EXCEPT ![w] =
                                     Worker("provision_start", env_id, env,
                                            "container", container_id)]
                         ELSE /\ heap' = set_error(provisioning, env, "create_container")
                              /\ resource_pool' = deallocate(allocated, env_id).pool
                              /\ workers' = workers
    /\ result' = "None"
    /\ UNCHANGED <<running, environments, enqueued, pool_call>>
    /\ provision_base' = Tracked

\* create_vm returns or raises; on return the handler stores vm_id and
\* enters start_vm, which suspends in the hypervisor subprocess ("boot").
provision_create_vm(w) ==
    /\ workers[w].pc = "create_vm"
    /\ \E disk_ok \in BOOLEAN :
         LET env_id == workers[w].env_id
             env == workers[w].env
             vm_id == uuids + 1
             c == create_vm(vm_manager, env_id, vm_id, disk_ok)
         IN  /\ uuids' = IF c.ok THEN vm_id ELSE uuids
             /\ vm_manager' = c.m
             /\ IF c.ok
                THEN /\ heap' = [heap EXCEPT ![env].vm_id = vm_id]
                     /\ workers' = [workers EXCEPT ![w] =
                            Worker("provision_boot", env_id, env, "vm", vm_id)]
                     /\ resource_pool' = resource_pool
                ELSE /\ heap' = set_error(heap, env, "create_vm")
                     /\ resource_pool' = deallocate(resource_pool, env_id).pool
                     /\ workers' = [workers EXCEPT ![w] = Idle]
    /\ result' = "None"
    /\ UNCHANGED <<running, environments, provisioning_queue, container_manager,
                   enqueued, pool_call>>
    /\ provision_base' = Tracked

ManagerOf(kind) == IF kind = "vm" THEN vm_manager ELSE container_manager

\* start_vm after _start_qemu_vm / _start_firecracker_vm: the VM record
\* (the one looked up when the call began) gets status "running" before
\* _wait_for_vm_ready, or "error" when the hypervisor did not start.
start_vm_boot(m, vm_id, ok) ==
    set_instance_status(m, vm_id, IF ok THEN "running" ELSE "error")

\* _wait_for_vm_ready looks the VM up (self.vms[vm_id]) before every probe:
\* for a VM destroyed while the hypervisor was starting the first lookup
\* raises KeyError, and start_vm raises without another visible write.
WaitMayBegin(vm_id) == vm_id \in DOMAIN vm_manager.instances

\* Whether a start call that is waiting for the instance to be ready may
\* still return normally.  _setup_x11_forwarding looks the container up
\* again (KeyError once destroyed); _wait_for_vm_ready looks the VM up
\* before its last probe, so a destroy during that probe goes unnoticed.
StartMayReturn(kind, instance) ==
    kind = "vm" \/ instance \in DOMAIN container_manager.instances

\* The end of start_vm / start_container: start_container sets "running"
\* only now, start_vm did so before waiting; both set "error" when they
\* raise.
start_ready(m, kind, instance, started) ==
    IF ~started THEN set_instance_status(m, instance, "error")
    ELSE IF kind = "container" THEN set_instance_status(m, instance, "running")
    ELSE m

\* A provision that puts its work item back in the queue when the
\* hypervisor does not start.
provision_boot_retry(w) ==
    /\ workers[w].pc = "provision_boot"
    /\ \E ok \in BOOLEAN :
         LET env_id == workers[w].env_id
             env == workers[w].env
         IN  /\ vm_manager' = start_vm_boot(vm_manager, workers[w].instance, ok)
             /\ IF ok /\ WaitMayBegin(workers[w].instance)
                THEN /\ workers' = [workers EXCEPT ![w].pc = "provision_start"]
                     /\ UNCHANGED <<heap, resource_pool, provisioning_queue>>
                ELSE /\ heap' = set_error(heap, env, "start")
                     /\ resource_pool' = deallocate(resource_pool, env_id).pool
                     /\ workers' = [workers EXCEPT ![w] = Idle]
                     /\ provisioning_queue' =
                            Append(provisioning_queue,
                                   [action |-> "provision", env_id |-> env_id])
    /\ result' = "None"
    /\ UNCHANGED <<running, environments, container_manager, uuids, enqueued, pool_call>>
    /\ provision_base' = Tracked

\* The hypervisor subprocess of the provision's start_vm ends.
provision_boot(w) ==
    /\ workers[w].pc = "provision_boot"
    /\ \E ok \in BOOLEAN :
         LET env_id == workers[w].env_id
             env == workers[w].env
         IN  /\ vm_manager' = start_vm_boot(vm_manager, workers[w].instance, ok)
             /\ IF ok /\ WaitMayBegin(workers[w].instance)
                THEN /\ workers' = [workers EXCEPT ![w].pc = "provision_start"]
                     /\ UNCHANGED <<heap, resource_pool>>
                ELSE /\ heap' = set_error(heap, env, "start")
                     /\ resource_pool' = deallocate(resource_pool, env_id).pool
                     /\ workers' = [workers EXCEPT ![w] = Idle]
    /\ result' = "None"
    /\ UNCHANGED <<running, environments, provisioning_queue, container_manager,
                   uuids, enqueued, pool_call>>
    /\ provision_base' = Tracked

\* start_vm / start_container of the provision returns or raises; the
\* handler fetches the streaming port and sets RUNNING, or runs its except
\* block.
provision_start(w) ==
    /\ workers[w].pc = "provision_start"
    /\ \E ok \in BOOLEAN :
         LET env_id == workers[w].env_id
             env == workers[w].env
             kind == workers[w].kind
             instance == workers[w].instance
             started == ok /\ StartMayReturn(kind, instance)
             m == start_ready(ManagerOf(kind), kind, instance, started)
         IN  /\ IF kind = "vm"
                THEN vm_manager' = m /\ container_manager' = container_manager
                ELSE container_manager' = m /\ vm_manager' = vm_manager
             /\ IF started
                THEN /\ heap' = stamp([heap EXCEPT
                                           ![env].streaming_port =
                                               get_streaming_port(m, instance),
                                           ![env].status = RUNNING],
                                      env, "started_at")
                     /\ resource_pool' = resource_pool
                ELSE /\ heap' = set_error(heap, env, "start")
                     /\ resource_pool' = deallocate(resource_pool, env_id).pool
    /\ workers' = [workers EXCEPT ![w] = Idle]
    /\ result' = "None"
    /\ UNCHANGED <<running, environments, provisioning_queue, uuids, enqueued, pool_call>>
    /\ provision_base' = Tracked

\* The instance a start / stop / terminate handler acts on:
\* if environment["vm_id"]: ... elif environment["container_id"]: ...
KindOf(environment) ==
    IF environment.vm_id # None THEN "vm"
    ELSE IF environment.container_id # None THEN "container"
    ELSE ""

InstanceOf(environment) ==
    IF environment.vm_id # None THEN environment.vm_id ELSE environment.container_id

\* _start_environment up to the first suspension.  start_vm and
\* start_container raise ValueError for an unknown id and return at once
\* for an instance that is already running.
_start_environment(w) ==
    /\ Dequeues(w, "start")
    /\ provisioning_queue' = Tail(provisioning_queue)
    /\ LET env_id == Head(provisioning_queue).env_id
           env == environments[env_id]
           kind == KindOf(heap[env])
           instance == InstanceOf(heap[env])
           provisioning == [heap EXCEPT ![env].status = PROVISIONING]
       IN  IF kind = ""
           THEN /\ heap' = stamp([heap EXCEPT ![env].status = RUNNING], env, "started_at")
                /\ workers' = workers
           ELSE IF instance \notin DOMAIN ManagerOf(kind).instances
           THEN /\ heap' = set_error(provisioning, env, "not found")
                /\ workers' = workers
           ELSE IF ManagerOf(kind).instances[instance].status = "running"
           THEN /\ heap' = stamp([heap EXCEPT ![env].status = RUNNING], env, "started_at")
                /\ workers' = workers
           ELSE /\ heap' = provisioning
                /\ workers' = [workers EXCEPT ![w] =
                       Worker(IF kind = "vm" THEN "start_boot" ELSE "start_wait",
                              env_id, env, kind, instance)]
    /\ result' = "None"
    /\ UNCHANGED <<running, environments, resource_pool, vm_manager, container_manager,
                   uuids, enqueued, pool_call>>
    /\ provision_base' = Tracked

\* The hypervisor subprocess of a start action's start_vm ends.
start_boot(w) ==
    /\ workers[w].pc = "start_boot"
    /\ \E ok \in BOOLEAN :
         /\ vm_manager' = start_vm_boot(vm_manager, workers[w].instance, ok)
         /\ IF ok /\ WaitMayBegin(workers[w].instance)
            THEN /\ workers' = [workers EXCEPT ![w].pc = "start_wait"]
                 /\ heap' = heap
            ELSE /\ heap' = set_error(heap, workers[w].env, "start")
                 /\ workers' = [workers EXCEPT ![w] = Idle]
    /\ result' = "None"
    /\ UNCHANGED <<running, environments, provisioning_queue, resource_pool,
                   container_manager, uuids, enqueued, pool_call>>
    /\ provision_base' = Tracked

\* A start action whose except block releases the reservation, as the one
\* of the provision does.
start_wait_deallocates(w) ==
    /\ workers[w].pc = "start_wait"
    /\ \E ok \in BOOLEAN :
         LET env == workers[w].env
             kind == workers[w].kind
             instance == workers[w].instance
             started == ok /\ StartMayReturn(kind, instance)
             m == start_ready(ManagerOf(kind), kind, instance, started)
         IN  /\ IF kind = "vm"
                THEN vm_manager' = m /\ container_manager' = container_manager
                ELSE container_manager' = m /\ vm_manager' = vm_manager
             /\ heap' = IF started
                        THEN stamp([heap EXCEPT ![env].status = RUNNING], env, "started_at")
                        ELSE set_error(heap, env, "start")
             /\ resource_pool' = IF started THEN resource_pool
                                 ELSE deallocate(resource_pool, workers[w].env_id).pool
    /\ workers' = [workers EXCEPT ![w] = Idle]
    /\ result' = "None"
    /\ UNCHANGED <<running, environments, provisioning_queue, uuids, enqueued, pool_call>>
    /\ provision_base' = Tracked

\* start_vm / start_container of a start action returns or raises.
start_wait(w) ==
    /\ workers[w].pc = "start_wait"
    /\ \E ok \in BOOLEAN :
         LET env == workers[w].env
             kind == workers[w].kind
             instance == workers[w].instance
             started == ok /\ StartMayReturn(kind, instance)
             m == start_ready(ManagerOf(kind), kind, instance, started)
         IN  /\ IF kind = "vm"
                THEN vm_manager' = m /\ container_manager' = container_manager
                ELSE container_manager' = m /\ vm_manager' = vm_manager
             /\ heap' = IF started
                        THEN stamp([heap EXCEPT ![env].status = RUNNING], env, "started_at")
                        ELSE set_error(heap, env, "start")
    /\ workers' = [workers EXCEPT ![w] = Idle]
    /\ result' = "None"
    /\ UNCHANGED <<running, environments, provisioning_queue, resource_pool, uuids,
                   enqueued, pool_call>>
    /\ provision_base' = Tracked

\* _stop_environment up to the first suspension.  stop_vm suspends in the
\* kill subprocess and the grace sleep; stop_container blocks in
\* docker_container.stop without suspending.
_stop_environment(w) ==
    /\ Dequeues(w, "stop")
    /\ provisioning_queue' = Tail(provisioning_queue)
    /\ LET env_id == Head(provisioning_queue).env_id
           env == environments[env_id]
           kind == KindOf(heap[env])
           instance == InstanceOf(heap[env])
           suspended == stamp([heap EXCEPT ![env].status = SUSPENDED], env, "stopped_at")
       IN  IF kind = ""
           THEN /\ heap' = suspended
                /\ UNCHANGED <<workers, container_manager>>
           ELSE IF instance \notin DOMAIN ManagerOf(kind).instances
           THEN /\ heap' = set_error(heap, env, "not found")
                /\ UNCHANGED <<workers, container_manager>>
           ELSE IF ManagerOf(kind).instances[instance].status # "running"
           THEN /\ heap' = suspended
                /\ UNCHANGED <<workers, container_manager>>
           ELSE IF kind = "vm"
           THEN /\ heap' = heap
                /\ workers' = [workers EXCEPT ![w] =
                                   Worker("stop_wait", env_id, env, kind, instance)]
                /\ container_manager' = container_manager
           ELSE \E ok \in BOOLEAN :
                  /\ workers' = workers
                  /\ IF ok
                     THEN /\ container_manager' =
                                 set_instance_status(container_manager, instance, "stopped")
                          /\ heap' = suspended
                     ELSE /\ container_manager' = container_manager
                          /\ heap' = set_error(heap, env, "stop")
    /\ result' = "None"
    /\ UNCHANGED <<running, environments, resource_pool, vm_manager, uuids, enqueued,
                   pool_call>>
    /\ provision_base' = Tracked

\* stop_vm of a stop action returns or raises.
stop_wait(w) ==
    /\ workers[w].pc = "stop_wait"
    /\ \E ok \in BOOLEAN :
         LET env == workers[w].env
             instance == workers[w].instance
         IN  IF ok
             THEN /\ vm_manager' = set_instance_status(vm_manager, instance, "stopped")
                  /\ heap' = stamp([heap EXCEPT ![env].status = SUSPENDED],
                                   env, "stopped_at")
             ELSE /\ vm_manager' = vm_manager
                  /\ heap' = set_error(heap, env, "stop")
    /\ workers' = [workers EXCEPT ![w] = Idle]
    /\ result' = "None"
    /\ UNCHANGED <<running, environments, provisioning_queue, resource_pool,
                   container_manager, uuids, enqueued, pool_call>>
    /\ provision_base' = Tracked

\* The tail of _terminate_environment once the destroy call has returned
\* (destroyed) or raised.
terminated(h, pool, env, env_id, destroyed) ==
    IF destroyed
    THEN [heap |-> stamp([h EXCEPT ![env].status = TERMINATED], env, "terminated_at"),
          pool |-> deallocate(pool, env_id).pool]
    ELSE [heap |-> set_error(h, env, "destroy"), pool |-> pool]

\* _terminate_environment up to the first suspension.  destroy_vm raises
\* ValueError for an unknown id and suspends in stop_vm when the VM is
\* running; destroy_container never suspends (stop_container, then
\* docker_container.remove, either of which may raise).
_terminate_environment(w) ==
    /\ Dequeues(w, "terminate")
    /\ provisioning_queue' = Tail(provisioning_queue)
    /\ LET env_id == Head(provisioning_queue).env_id
           env == environments[env_id]
           kind == KindOf(heap[env])
           instance == InstanceOf(heap[env])
           m == ManagerOf(kind)
       IN  IF kind = ""
           THEN LET t == terminated(heap, resource_pool, env, env_id, TRUE)
                IN  /\ heap' = t.heap
                    /\ resource_pool' = t.pool
                    /\ UNCHANGED <<workers, vm_manager, container_manager>>
           ELSE IF instance \notin DOMAIN m.instances
           THEN LET t == terminated(heap, resource_pool, env, env_id, FALSE)
                IN  /\ heap' = t.heap
                    /\ resource_pool' = t.pool
                    /\ UNCHANGED <<workers, vm_manager, container_manager>>
           ELSE IF kind = "vm" /\ m.instances[instance].status = "running"
           THEN /\ workers' = [workers EXCEPT ![w] =
                                   Worker("destroy_wait", env_id, env, kind, instance)]
                /\ UNCHANGED <<heap, resource_pool, vm_manager, container_manager>>
           ELSE \E stop_ok, remove_ok \in BOOLEAN :
                  LET was_running == m.instances[instance].status = "running"
                      m1 == IF was_running /\ stop_ok
                            THEN set_instance_status(m, instance, "stopped")
                            ELSE m
                      destroyed == (was_running => stop_ok) /\ remove_ok
                      m2 == IF destroyed THEN remove_instance(m1, instance).m ELSE m1
                      t == terminated(heap, resource_pool, env, env_id, destroyed)
                  IN  /\ heap' = t.heap
                      /\ resource_pool' = t.pool
                      /\ workers' = workers
                      /\ IF kind = "vm"
                         THEN vm_manager' = m2 /\ container_manager' = container_manager
                         ELSE container_manager' = m2 /\ vm_manager' = vm_manager
    /\ result' = "None"
    /\ UNCHANGED <<running, environments, uuids, enqueued, pool_call>>
    /\ provision_base' = Tracked

\* stop_vm inside destroy_vm returns or raises; then the disk image is
\* unlinked, the port released and the record deleted (KeyError when a
\* concurrent destroy deleted it first).
destroy_wait(w) ==
    /\ workers[w].pc = "destroy_wait"
    /\ \E stop_ok, remove_ok \in BOOLEAN :
         LET env_id == workers[w].env_id
             env == workers[w].env
             instance == workers[w].instance
             m1 == IF stop_ok
                   THEN set_instance_status(vm_manager, instance, "stopped")
                   ELSE vm_manager
             rm == remove_instance(m1, instance)
             destroyed == stop_ok /\ remove_ok /\ rm.ok
             t == terminated(heap, resource_pool, env, env_id, destroyed)
         IN  /\ vm_manager' = IF stop_ok /\ remove_ok THEN rm.m ELSE m1
             /\ heap' = t.heap
             /\ resource_pool' = t.pool
    /\ workers' = [workers EXCEPT ![w] = Idle]
    /\ result' = "None"
    /\ UNCHANGED <<running, environments, provisioning_queue, container_manager, uuids,
                   enqueued, pool_call>>
    /\ provision_base' = Tracked

Next ==
    \/ start
    \/ \E r \in Requests : create_environment(r.env_id, r.spec, r.user_id)
    \/ \E env_id \in EnvIds : start_environment(env_id)
    \/ \E env_id \in EnvIds : stop_environment(env_id)
    \/ \E env_id \in EnvIds : terminate_environment(env_id)
    \/ \E w \in Workers : _provision_environment(w)
    \/ \E w \in Workers : provision_create_vm(w)
    \/ \E w \in Workers : provision_boot(w)
    \/ \E w \in Workers : provision_start(w)
    \/ \E w \in Workers : _start_environment(w)
    \/ \E w \in Workers : start_boot(w)
    \/ \E w \in Workers : start_wait(w)
    \/ \E w \in Workers : _stop_environment(w)
    \/ \E w \in Workers : stop_wait(w)
    \/ \E w \in Workers : _terminate_environment(w)
    \/ \E w \in Workers : destroy_wait(w)

\* The engine from construction on, for as long as it is not shut down.
Spec == Init /\ [][Next]_vars

\* The same with the shutdown.
NextWithStop == Next \/ stop

ShutdownSpec == Init /\ [][NextWithStop]_vars

(***************************************************************************)
(* ResourcePool on its own: a client calls can_allocate, allocate and       *)
(* deallocate directly, in any order, with any of these arguments.  The     *)
(* methods are synchronous, so every interleaving of callers is a sequence  *)
(* of such calls.                                                           *)
(***************************************************************************)
PoolEnvIds == {"e1", "e2", "e3"}

CpuRequests == {4, 8}

MemoryRequests == {8192, 16384}

DiskRequests == {100, 400}

EngineIdle ==
    UNCHANGED <<running, workers, heap, environments, provisioning_queue, vm_manager,
                container_manager, uuids, enqueued, provision_base>>

pool_can_allocate(cpu, memory, disk) ==
    /\ result' = Bool(can_allocate(resource_pool, cpu, memory, disk))
    /\ pool_call' = Call("can_allocate", "", cpu, memory, disk)
    /\ resource_pool' = resource_pool
    /\ EngineIdle

pool_allocate(env_id, cpu, memory, disk) ==
    /\ LET a == allocate(resource_pool, env_id, cpu, memory, disk)
       IN  /\ resource_pool' = a.pool
           /\ result' = Bool(a.ret)
    /\ pool_call' = Call("allocate", env_id, cpu, memory, disk)
    /\ EngineIdle

pool_deallocate(env_id) ==
    /\ LET d == deallocate(resource_pool, env_id)
       IN  /\ resource_pool' = d.pool
           /\ result' = Bool(d.ret)
    /\ pool_call' = Call("deallocate", env_id, 0, 0, 0)
    /\ EngineIdle

PoolNext ==
    \/ \E cpu \in CpuRequests, memory \in MemoryRequests, disk \in DiskRequests :
         pool_can_allocate(cpu, memory, disk)
    \/ \E env_id \in PoolEnvIds, cpu \in CpuRequests, memory \in MemoryRequests,
          disk \in DiskRequests :
         pool_allocate(env_id, cpu, memory, disk)
    \/ \E env_id \in PoolEnvIds : pool_deallocate(env_id)

PoolSpec == Init /\ [][PoolNext]_vars

(***************************************************************************)
(* Properties of the ResourcePool                                           *)
(***************************************************************************)
RECURSIVE Reserved(_, _, _)
\* The sum of one quantity over the reservations of the environments in ids.
Reserved(active, ids, quantity) ==
    IF ids = {} THEN 0
    ELSE LET id == CHOOSE x \in ids : TRUE
         IN  active[id][quantity] + Reserved(active, ids \ {id}, quantity)

ReservedTotal(p, quantity) ==
    Reserved(p.active_environments, DOMAIN p.active_environments, quantity)

\* C1: after any sequence of allocate and deallocate calls, the cpu summed
\* over the active reservations is at most the pool's cpu capacity, and so
\* for memory and for disk.
C1_ReservationsWithinCapacity ==
    /\ ReservedTotal(resource_pool, "cpu") <= max_cpu_cores
    /\ ReservedTotal(resource_pool, "memory") <= max_memory_mb
    /\ ReservedTotal(resource_pool, "disk") <= max_disk_gb

\* C1 witness: an allocate was just refused while the reservations of two
\* other environments fill the cpu capacity exactly.
C1_Witness ==
    /\ pool_call.name = "allocate"
    /\ result = "False"
    /\ Cardinality(DOMAIN resource_pool.active_environments) = 2
    /\ ReservedTotal(resource_pool, "cpu") = max_cpu_cores

\* C2: allocate is all-or-nothing.  When one of the three quantities would
\* exceed its ceiling it returns False and leaves the totals and the
\* reservation table as they were; otherwise it returns True, adds all
\* three quantities and records the reservation under env_id.
C2_AllocateAllOrNothing ==
    [][\A env_id \in PoolEnvIds, cpu \in CpuRequests, memory \in MemoryRequests,
          disk \in DiskRequests :
         pool_allocate(env_id, cpu, memory, disk) =>
           IF \/ resource_pool.allocated_cpu + cpu > max_cpu_cores
              \/ resource_pool.allocated_memory + memory > max_memory_mb
              \/ resource_pool.allocated_disk + disk > max_disk_gb
           THEN /\ result' = "False"
                /\ resource_pool' = resource_pool
           ELSE /\ result' = "True"
                /\ resource_pool'.allocated_cpu = resource_pool.allocated_cpu + cpu
                /\ resource_pool'.allocated_memory = resource_pool.allocated_memory + memory
                /\ resource_pool'.allocated_disk = resource_pool.allocated_disk + disk
                /\ DOMAIN resource_pool'.active_environments =
                       (DOMAIN resource_pool.active_environments) \cup {env_id}
                /\ resource_pool'.active_environments[env_id] =
                       [cpu |-> cpu, memory |-> memory, disk |-> disk]
                /\ \A other \in (DOMAIN resource_pool.active_environments) \ {env_id} :
                       resource_pool'.active_environments[other] =
                           resource_pool.active_environments[other]]_vars

\* C2 witness: an allocate was refused for its disk alone (its cpu and its
\* memory fitted), and the pool holds other reservations.
C2_Witness ==
    /\ pool_call.name = "allocate"
    /\ result = "False"
    /\ resource_pool.allocated_cpu + pool_call.cpu <= max_cpu_cores
    /\ resource_pool.allocated_memory + pool_call.memory <= max_memory_mb
    /\ resource_pool.allocated_disk + pool_call.disk > max_disk_gb
    /\ resource_pool.active_environments # EmptyDict

\* C3: deallocate of an environment that holds a reservation removes it,
\* lowers the totals by exactly the reserved quantities and returns True;
\* for an environment without one it returns False and changes nothing.
\* After either, the environment holds none, so a second deallocate in a
\* row is the no-op.
C3_DeallocateExact ==
    [][\A env_id \in PoolEnvIds :
         pool_deallocate(env_id) =>
           /\ env_id \notin DOMAIN resource_pool'.active_environments
           /\ IF env_id \in DOMAIN resource_pool.active_environments
              THEN LET held == resource_pool.active_environments[env_id]
                   IN  /\ result' = "True"
                       /\ resource_pool'.allocated_cpu =
                              resource_pool.allocated_cpu - held.cpu
                       /\ resource_pool'.allocated_memory =
                              resource_pool.allocated_memory - held.memory
                       /\ resource_pool'.allocated_disk =
                              resource_pool.allocated_disk - held.disk
                       /\ resource_pool'.active_environments =
                              Del(resource_pool.active_environments, env_id)
              ELSE /\ result' = "False"
                   /\ resource_pool' = resource_pool]_vars

\* C3 witness: a deallocate found no reservation for its environment in a
\* pool that holds reservations of others.
C3_Witness ==
    /\ pool_call.name = "deallocate"
    /\ result = "False"
    /\ pool_call.env_id \notin DOMAIN resource_pool.active_environments
    /\ resource_pool.active_environments # EmptyDict
    /\ resource_pool.allocated_cpu > 0

(***************************************************************************)
(* Properties of the OrchestrationEngine                                    *)
(***************************************************************************)
\* C4: at most one worker at a time is inside an action handler for a given
\* environment id: no two workers are in handlers of the same environment.
C4_OneHandlerPerEnvironment ==
    \A v, w \in Workers :
        (v # w /\ InHandler(v) /\ InHandler(w)) => workers[v].env_id # workers[w].env_id

\* C5: TERMINATED is absorbing: an environment whose status is TERMINATED
\* has status TERMINATED after every step, of a caller or of a worker.
C5_TerminatedIsAbsorbing ==
    [][\A env \in 1..Len(heap) :
         heap[env].status = TERMINATED => heap'[env].status = TERMINATED]_vars

\* The step with which worker w finishes a terminate action for env_id:
\* the whole handler when the destroy call does not suspend, or the return
\* of the destroy call it was waiting in.
FinishesTerminate(w, env_id) ==
    \/ /\ _terminate_environment(w)
       /\ Head(provisioning_queue).env_id = env_id
       /\ workers'[w].pc = "idle"
    \/ /\ destroy_wait(w)
       /\ workers[w].env_id = env_id

\* C6: when a worker has finished a terminate action for an environment,
\* the pool holds no reservation for that environment id, whether the
\* destroy call succeeded or raised.
C6_TerminateReleasesReservation ==
    [][\A w \in Workers, env_id \in EnvIds :
         FinishesTerminate(w, env_id) =>
             env_id \notin DOMAIN resource_pool'.active_environments]_vars

\* The step in which the provision worker w is inside fails, its resources
\* reserved: create_vm, the hypervisor, or the wait for the instance raises.
ProvisionFails(w) ==
    \/ /\ provision_create_vm(w) \/ provision_boot(w)
       /\ workers'[w].pc = "idle"
    \/ /\ provision_start(w)
       /\ heap'[workers[w].env].status = ERROR

\* The provision of a container that fails in create_container, in the
\* step that reserved its resources.
ProvisionFailsAtOnce(w) ==
    /\ _provision_environment(w)
    /\ LET env == environments[Head(provisioning_queue).env_id]
           spec == heap[env].specification
       IN  /\ resource_pool.allocated_cpu + spec.cpu_cores <= max_cpu_cores
           /\ resource_pool.allocated_memory + spec.memory_mb <= max_memory_mb
           /\ resource_pool.allocated_disk + spec.disk_gb <= max_disk_gb
           /\ heap'[env].status = ERROR

\* C7: when a step of a provision fails after the resources were reserved,
\* the environment is in ERROR with the error recorded, the pool holds no
\* reservation for its id, and the committed totals are what they were
\* before that provision began (what handlers of other environments
\* reserved and released in the meantime counted in).
C7_FailedProvisionRestoresPool ==
    [][\A w \in Workers :
         /\ ProvisionFails(w) =>
              /\ heap'[workers[w].env].status = ERROR
              /\ "error" \in DOMAIN heap'[workers[w].env].metadata
              /\ workers[w].env_id \notin DOMAIN resource_pool'.active_environments
              /\ Totals(resource_pool') = provision_base[w]
         /\ ProvisionFailsAtOnce(w) =>
              LET env_id == Head(provisioning_queue).env_id
              IN  /\ "error" \in DOMAIN heap'[environments[env_id]].metadata
                  /\ env_id \notin DOMAIN resource_pool'.active_environments
                  /\ Totals(resource_pool') = Totals(resource_pool)]_vars

\* The pool cannot admit the specification on top of what is committed.
CannotAdmit(p, spec) ==
    \/ p.allocated_cpu + spec.cpu_cores > max_cpu_cores
    \/ p.allocated_memory + spec.memory_mb > max_memory_mb
    \/ p.allocated_disk + spec.disk_gb > max_disk_gb

\* C8: a provision action that runs for a REQUESTED environment the pool
\* cannot admit leaves the environment in ERROR, records no reservation
\* (the reservation table is as before), leaves the committed totals and
\* the utilization as before, and creates no backing instance.
C8_InsufficientResourcesLeavePoolAlone ==
    [][\A w \in Workers :
         (/\ _provision_environment(w)
          /\ heap[environments[Head(provisioning_queue).env_id]].status = REQUESTED
          /\ CannotAdmit(resource_pool,
                         heap[environments[Head(provisioning_queue).env_id]].specification))
         => LET env == environments[Head(provisioning_queue).env_id]
            IN  /\ heap'[env].status = ERROR
                /\ resource_pool'.active_environments = resource_pool.active_environments
                /\ Totals(resource_pool') = Totals(resource_pool)
                /\ get_utilization(resource_pool') = get_utilization(resource_pool)
                /\ vm_manager' = vm_manager
                /\ container_manager' = container_manager
                /\ heap'[env].vm_id = None
                /\ heap'[env].container_id = None
                /\ heap'[env].streaming_port = None]_vars

\* C8 witness: an environment refused for insufficient resources, without
\* reservation and without instance, while the pool is full with the
\* resources of others.
C8_Witness ==
    \E env \in 1..Len(heap) :
        /\ heap[env].status = ERROR
        /\ "error" \in DOMAIN heap[env].metadata
        /\ heap[env].metadata["error"] = "Insufficient resources"
        /\ heap[env].id \notin DOMAIN resource_pool.active_environments
        /\ CannotAdmit(resource_pool, heap[env].specification)
        /\ heap[env].vm_id = None /\ heap[env].container_id = None

\* The lifecycle table.
Lifecycle(from, to) ==
    \/ from = REQUESTED /\ to = PROVISIONING
    \/ from = SUSPENDED /\ to = PROVISIONING
    \/ from = PROVISIONING /\ to = RUNNING
    \/ from = RUNNING /\ to = SUSPENDED
    \/ from # TERMINATED /\ to \in {TERMINATED, ERROR}

\* C9: every change of an environment's status follows the lifecycle
\* table.  A handler that writes PROVISIONING and another status without
\* suspending in between makes both changes in one step.
C9_StatusFollowsLifecycle ==
    [][\A env \in 1..Len(heap) :
         \/ heap'[env].status = heap[env].status
         \/ Lifecycle(heap[env].status, heap'[env].status)
         \/ /\ Lifecycle(heap[env].status, PROVISIONING)
            /\ Lifecycle(PROVISIONING, heap'[env].status)]_vars

\* C10: start_environment for an unknown environment or one that is not
\* SUSPENDED returns False, enqueues nothing and changes no status; for a
\* SUSPENDED environment it enqueues exactly one start item and returns
\* True.
C10_StartOnlyFromSuspended ==
    [][\A env_id \in EnvIds :
         start_environment(env_id) =>
           /\ heap' = heap
           /\ environments' = environments
           /\ IF env_id \in DOMAIN environments
                 /\ heap[environments[env_id]].status = SUSPENDED
              THEN /\ result' = "True"
                   /\ provisioning_queue' =
                          Append(provisioning_queue,
                                 [action |-> "start", env_id |-> env_id])
              ELSE /\ result' = "False"
                   /\ provisioning_queue' = provisioning_queue]_vars

\* C10 witness: a start_environment call has just returned True for a
\* SUSPENDED environment and its start item is the last of the queue.
C10_Witness ==
    /\ result = "True"
    /\ provisioning_queue # <<>>
    /\ LET item == provisioning_queue[Len(provisioning_queue)]
       IN  /\ item.action = "start"
           /\ item.env_id \in DOMAIN environments
           /\ heap[environments[item.env_id]].status = SUSPENDED

\* C11: stop_environment for an unknown environment or one that is not
\* RUNNING returns False, enqueues nothing and changes no status; for a
\* RUNNING environment it enqueues exactly one stop item and returns True.
C11_StopOnlyFromRunning ==
    [][\A env_id \in EnvIds :
         stop_environment(env_id) =>
           /\ heap' = heap
           /\ environments' = environments
           /\ IF env_id \in DOMAIN environments
                 /\ heap[environments[env_id]].status = RUNNING
              THEN /\ result' = "True"
                   /\ provisioning_queue' =
                          Append(provisioning_queue,
                                 [action |-> "stop", env_id |-> env_id])
              ELSE /\ result' = "False"
                   /\ provisioning_queue' = provisioning_queue]_vars

\* C11 witness: a stop_environment call has just returned True for a
\* RUNNING environment and its stop item is the last of the queue.
C11_Witness ==
    /\ result = "True"
    /\ provisioning_queue # <<>>
    /\ LET item == provisioning_queue[Len(provisioning_queue)]
       IN  /\ item.action = "stop"
           /\ item.env_id \in DOMAIN environments
           /\ heap[environments[item.env_id]].status = RUNNING

\* C12: terminate_environment for a registered environment whose status
\* is not TERMINATED enqueues exactly one terminate item and returns True;
\* for an unknown environment or one that is TERMINATED already it returns
\* False and enqueues nothing.
C12_TerminateOnlyFromNonTerminal ==
    [][\A env_id \in EnvIds :
         terminate_environment(env_id) =>
           IF env_id \in DOMAIN environments
              /\ heap[environments[env_id]].status # TERMINATED
           THEN /\ result' = "True"
                /\ provisioning_queue' =
                       Append(provisioning_queue,
                              [action |-> "terminate", env_id |-> env_id])
           ELSE /\ result' = "False"
                /\ provisioning_queue' = provisioning_queue]_vars

\* C13: create_environment registers a record with status REQUESTED,
\* enqueues exactly one provision item for the id and returns the record
\* without any worker having moved; when it returns,
\* get_environment_status of the id yields that record, not None.
C13_CreateRegistersAndEnqueues ==
    [][\A r \in Requests :
         create_environment(r.env_id, r.spec, r.user_id) =>
           LET status == get_environment_status(environments', heap', r.env_id)
           IN  /\ status # NoDict
               /\ status.id = r.env_id
               /\ status.user_id = r.user_id
               /\ status.specification = r.spec
               /\ status.status = REQUESTED
               /\ provisioning_queue' =
                      Append(provisioning_queue,
                             [action |-> "provision", env_id |-> r.env_id])
               /\ workers' = workers
               /\ result' = "environment"]_vars

\* C13 witness: create_environment has just returned while a worker is
\* busy inside a handler; the new record is REQUESTED and visible, and its
\* provision item is the last of the queue.
C13_Witness ==
    /\ result = "environment"
    /\ \E w \in Workers : InHandler(w)
    /\ provisioning_queue # <<>>
    /\ LET item == provisioning_queue[Len(provisioning_queue)]
       IN  /\ item.action = "provision"
           /\ get_environment_status(environments, heap, item.env_id) # NoDict
           /\ get_environment_status(environments, heap, item.env_id).status = REQUESTED

\* C14: a start action that a worker dequeues while the environment is not
\* SUSPENDED is a no-op: the worker enters no call of a manager and no
\* instance changes, the environment keeps its status and its timestamps
\* (the whole dictionary is as before), and nothing is enqueued.
C14_StartRejectedUnlessSuspended ==
    [][\A w \in Workers :
         (/\ _start_environment(w)
          /\ heap[environments[Head(provisioning_queue).env_id]].status # SUSPENDED)
         => /\ heap' = heap
            /\ workers' = workers
            /\ vm_manager' = vm_manager
            /\ container_manager' = container_manager
            /\ provisioning_queue' = Tail(provisioning_queue)
            /\ enqueued' = enqueued]_vars

\* Worker w takes a step of a handler of the given action: it dequeues
\* the item, or goes on after one of the handler's awaits.
HandlerStep(w, action) ==
    CASE action = "provision" ->
             \/ _provision_environment(w) \/ provision_create_vm(w)
             \/ provision_boot(w) \/ provision_start(w)
      [] action = "start" -> _start_environment(w) \/ start_boot(w) \/ start_wait(w)
      [] action = "stop" -> _stop_environment(w) \/ stop_wait(w)
      [] action = "terminate" -> _terminate_environment(w) \/ destroy_wait(w)

\* The dictionary the handler of that step works on.
HandlerEnv(w) ==
    IF InHandler(w) THEN workers[w].env
    ELSE environments[Head(provisioning_queue).env_id]

\* The status a handler writes when nothing fails.
Done(action) ==
    CASE action = "provision" -> RUNNING
      [] action = "start" -> RUNNING
      [] action = "stop" -> SUSPENDED
      [] action = "terminate" -> TERMINATED

\* C15: a failure inside a handler does not stop the worker.  Whenever a
\* worker comes to the end of a handler, either the handler has written
\* the status of its success, or the environment is in ERROR with the
\* error recorded in its metadata; either way the worker is back in
\* queue.get() of the running engine, ready for the next work item.  (A
\* step ends a handler of w when w leaves a handler for queue.get(), or
\* takes an item off the queue and is in queue.get() again.)
C15_FailureRecordedWorkerGoesOn ==
    [][\A w \in Workers :
         (/\ workers'[w].pc = "idle"
          /\ \/ InHandler(w)
             \/ workers[w].pc = "idle" /\ Len(provisioning_queue') < Len(provisioning_queue))
         => \A action \in {"provision", "start", "stop", "terminate"} :
              HandlerStep(w, action)
              => /\ \/ heap'[HandlerEnv(w)].status = Done(action)
                    \/ /\ heap'[HandlerEnv(w)].status = ERROR
                       /\ "error" \in DOMAIN heap'[HandlerEnv(w)].metadata
                 /\ running'
                 /\ workers'[w] = Idle]_vars

\* C15 witness: the first worker has failed the provision of the first
\* environment (ERROR, error recorded) and is now inside the handler of
\* the second work item, the other workers never having had to step in.
C15_Witness ==
    /\ running
    /\ Len(heap) = 2
    /\ enqueued = 2
    /\ heap[1].status = ERROR
    /\ "error" \in DOMAIN heap[1].metadata
    /\ InHandler(1)
    /\ workers[1].env = 2
    /\ heap[2].id # heap[1].id
    /\ \A w \in Workers \ {1} : workers[w] = Idle

\* The backing instance of the record is not in its manager after the
\* step (or the record never had one): whatever the destroy call had to
\* remove is removed.
InstanceGone(environment) ==
    \/ KindOf(environment) = ""
    \/ /\ KindOf(environment) = "vm"
       /\ InstanceOf(environment) \notin DOMAIN vm_manager'.instances
    \/ /\ KindOf(environment) = "container"
       /\ InstanceOf(environment) \notin DOMAIN container_manager'.instances

\* C16: a terminate action processed for an environment in ERROR succeeds.
\* When a worker finishes a terminate action on a record that is in ERROR,
\* and the backing system keeps no instance of it afterwards, the record
\* is TERMINATED and the pool holds no reservation for its id, whether it
\* held one before or not.
C16_TerminateFromErrorSucceeds ==
    [][\A w \in Workers, env_id \in EnvIds :
         (/\ FinishesTerminate(w, env_id)
          /\ heap[HandlerEnv(w)].status = ERROR
          /\ InstanceGone(heap[HandlerEnv(w)]))
         => /\ heap'[HandlerEnv(w)].status = TERMINATED
            /\ env_id \notin DOMAIN resource_pool'.active_environments]_vars

(***************************************************************************)
(* The strategy selection on its own: a client calls _determine_strategy   *)
(* with any of these specifications.                                       *)
(***************************************************************************)
StrWindows11 == <<"W", "i", "n", "d", "o", "w", "s", "_", "1", "1">>

StrMacOS14 == <<"m", "a", "c", "O", "S", "_", "1", "4">>

StrategyOs == {StrUbuntu2204, StrWindows11, StrMacOS14}

StrategyMemory == {4096, 4097}

StrategyCpu == {4, 5}

StrategyApps ==
    {<<>>, <<"firefox">>, <<"firefox", "python">>, <<"gimp", "firefox">>, <<"gimp">>}

StrategySpecs ==
    [base_os : StrategyOs, apps : StrategyApps, memory_mb : StrategyMemory,
     cpu_cores : StrategyCpu, disk_gb : {20}, gpu_enabled : BOOLEAN]

StrategyCall(spec) == [name |-> "_determine_strategy", spec |-> spec]

\* A selection whose answer depends on the registry.
select_strategy_by_registry(spec) ==
    /\ result' = IF heap # <<>> THEN VM_ONLY ELSE _determine_strategy(spec)
    /\ pool_call' = StrategyCall(spec)
    /\ UNCHANGED <<running, workers, heap, environments, provisioning_queue, resource_pool,
                   vm_manager, container_manager, uuids, enqueued, provision_base>>

\* A call of _determine_strategy: it reads its argument only and writes
\* nothing.
select_strategy(spec) ==
    /\ result' = _determine_strategy(spec)
    /\ pool_call' = StrategyCall(spec)
    /\ UNCHANGED <<running, workers, heap, environments, provisioning_queue, resource_pool,
                   vm_manager, container_manager, uuids, enqueued, provision_base>>

StrategyNext == \E spec \in StrategySpecs : select_strategy(spec)

StrategySpec == Init /\ [][StrategyNext]_vars

\* The selection called while the engine registers environments and
\* begins to provision them, so that the calls meet different registries,
\* pools and queues.  The client asks for the specifications that the
\* callers of create_environment submit.
SelectionNext ==
    \/ start
    \/ \E r \in Requests : create_environment(r.env_id, r.spec, r.user_id)
    \/ \E w \in Workers : _provision_environment(w)
    \/ \E r \in Requests : select_strategy(r.spec)

SelectionSpec == Init /\ [][SelectionNext]_vars

\* The letters of a are those of b, whatever their case.
SameLetters(a, b) ==
    /\ Len(a) = Len(b)
    /\ \A i \in 1..Len(a) : lower(<<a[i]>>) = lower(<<b[i]>>)

\* The name of the operating system names the family.
NamesFamily(os, family) ==
    \E i \in 1..Len(os) : \E j \in i..Len(os) : SameLetters(SubSeq(os, i, j), family)

\* The rules of the selection, in their order.
StrategyRules(spec) ==
    <<[when |-> spec.gpu_enabled, strategy |-> VM_ONLY],
      [when |-> NamesFamily(spec.base_os, StrWindows) \/ NamesFamily(spec.base_os, StrMacos),
       strategy |-> VM_ONLY],
      [when |-> spec.memory_mb > 4096 \/ spec.cpu_cores > 4, strategy |-> VM_ONLY],
      [when |-> {spec.apps[i] : i \in 1..Len(spec.apps)} \subseteq simple_apps,
       strategy |-> CONTAINER_ONLY],
      [when |-> TRUE, strategy |-> VM_ONLY]>>

\* The strategy of the first rule that matches.
FirstMatch(rules) ==
    LET first == CHOOSE i \in 1..Len(rules) :
                     rules[i].when /\ \A j \in 1..(i - 1) : ~rules[j].when
    IN  rules[first].strategy

\* C17: for every specification, the strategy selected is that of the
\* first matching rule: VM for a GPU; else VM for a Windows or macOS base
\* system; else VM for more than 4096 MB or more than 4 cores; else
\* container when every application (none included) is in the allow-list;
\* else VM.
C17_StrategyIsFirstMatch ==
    [][\A spec \in StrategySpecs :
         select_strategy(spec) => result' = FirstMatch(StrategyRules(spec))]_vars

\* C17 witness: a GPU specification that is light, Linux-based and asks
\* for allow-listed applications only was given a VM.
C17_Witness ==
    /\ pool_call = StrategyCall([base_os |-> StrUbuntu2204, apps |-> <<"firefox", "python">>,
                                 memory_mb |-> 4096, cpu_cores |-> 4, disk_gb |-> 20,
                                 gpu_enabled |-> TRUE])
    /\ result = VM_ONLY

Percent(u, num, den) == u.num * den = num * u.den

\* The end of the scenario: one environment was created with the light
\* specification (2 cores, 2048 MB, 20 GB, no GPU, ubuntu_22.04, firefox)
\* on the empty pool, nothing else was requested, its provision action has
\* been processed and none of the provisioner's calls failed.
ProvisionedAlone ==
    /\ Len(heap) = 1
    /\ heap[1].specification = SmallSpec
    /\ enqueued = 1
    /\ provisioning_queue = <<>>
    /\ \A w \in Workers : workers[w] = Idle
    /\ "error" \notin DOMAIN heap[1].metadata

C20_StopThenRestart ==
    [][\A w \in Workers :
         /\ (/\ _stop_environment(w) \/ stop_wait(w)
             /\ workers'[w] = Idle
             /\ heap[HandlerEnv(w)].status = RUNNING
             /\ heap'[HandlerEnv(w)].status # ERROR)
            => heap'[HandlerEnv(w)].status = SUSPENDED
         /\ (/\ _start_environment(w)
             /\ heap[HandlerEnv(w)].status = SUSPENDED
             /\ heap'[HandlerEnv(w)].status # ERROR)
            => \/ /\ workers'[w].pc \in {"start_boot", "start_wait"}
                  /\ heap'[HandlerEnv(w)].status = PROVISIONING
               \/ /\ workers'[w] = Idle
                  /\ heap'[HandlerEnv(w)].status = RUNNING
                  /\ heap'[HandlerEnv(w)].started_at > heap[HandlerEnv(w)].started_at
         /\ (/\ start_wait(w)
             /\ heap[HandlerEnv(w)].status = PROVISIONING
             /\ heap'[HandlerEnv(w)].status # ERROR)
            => /\ heap'[HandlerEnv(w)].status = RUNNING
               /\ heap'[HandlerEnv(w)].started_at > heap[HandlerEnv(w)].started_at]_vars

\* C20 witness: an environment that was created (clock reading 1), ran
\* (2), was stopped (3) and started again is RUNNING with the start
\* timestamp of its second run (4).
C20_Witness ==
    \E env \in 1..Len(heap) :
        /\ heap[env].status = RUNNING
        /\ heap[env].created_at = 1
        /\ heap[env].stopped_at = 3
        /\ heap[env].started_at = 4
        /\ "error" \notin DOMAIN heap[env].metadata

(***************************************************************************)
(* Snapshots: a client calls get_environment_status while the engine       *)
(* registers and provisions environments.                                  *)
(***************************************************************************)
\* dict.copy() of the record at place env of the heap: a new dictionary
\* with the values of the record's keys.  The value of "metadata" is a
\* dictionary, and the copy holds the same dictionary object as the
\* record (kept here as the place of the record that owns it), not a copy
\* of it.
copy(records, env) == [dict |-> records[env], metadata |-> env]

\* What a client reads in a dictionary it got from copy.
Read(snapshot) == [snapshot.dict EXCEPT !.metadata = heap[snapshot.metadata].metadata]

\* A client awaits get_environment_status(env_id) and keeps what it got.
client_get_environment_status(env_id) ==
    /\ pool_call' = [name |-> "get_environment_status", env_id |-> env_id,
                     ret |-> IF env_id \in DOMAIN environments
                             THEN copy(heap, environments[env_id])
                             ELSE NoDict]
    /\ result' = IF env_id \in DOMAIN environments THEN "dict" ELSE "None"
    /\ UNCHANGED <<running, workers, heap, environments, provisioning_queue, resource_pool,
                   vm_manager, container_manager, uuids, enqueued, provision_base>>

SnapshotNext ==
    \/ start
    \/ \E r \in Requests : create_environment(r.env_id, r.spec, r.user_id)
    \/ \E w \in Workers : _provision_environment(w)
    \/ \E w \in Workers : provision_create_vm(w)
    \/ \E w \in Workers : provision_boot(w)
    \/ \E w \in Workers : provision_start(w)
    \/ \E env_id \in EnvIds : client_get_environment_status(env_id)

SnapshotSpec == Init /\ [][SnapshotNext]_vars

\* C21: get_environment_status returns None for an id that is not
\* registered and a snapshot otherwise, and no later step of the engine
\* changes anything a client reads in a snapshot it holds.
C21_SnapshotIsImmutable ==
    [][/\ \A env_id \in EnvIds :
            client_get_environment_status(env_id)
            => (pool_call'.ret = NoDict <=> env_id \notin DOMAIN environments)
       /\ (/\ pool_call.name = "get_environment_status"
           /\ pool_call.ret # NoDict
           /\ pool_call' = pool_call)
          => Read(pool_call.ret)' = Read(pool_call.ret)]_vars

\* C22: the shutdown leaves the pool consistent with the registry.  When
\* stop() is called, every environment whose provision is in flight (its
\* handler has reserved and waits in a provisioner call) is left in
\* PROVISIONING with its reservation in the pool, and stop() changes no
\* record and no reservation.
C22_ShutdownKeepsPoolAndRegistry ==
    [][stop
       => /\ \A w \in Workers :
               InProvision(workers[w])
               => /\ heap'[workers[w].env].status = PROVISIONING
                  /\ workers[w].env_id \in DOMAIN resource_pool'.active_environments
          /\ heap' = heap
          /\ environments' = environments
          /\ resource_pool' = resource_pool]_vars

\* Some worker takes a step of a handler.
WorkerStep ==
    \E w \in Workers, action \in {"provision", "start", "stop", "terminate"} :
        HandlerStep(w, action)

\* C23: the engine retries nothing by itself.  A record in ERROR leaves
\* ERROR only in a step of a worker that handles a work item for that
\* record; the steps of the workers put nothing in the queue (every item
\* in it was put by a public operation), and they take the item they
\* handle off the queue, so that a failed action is not handled again.
C23_NoAutomaticRetry ==
    [][/\ \A env \in 1..Len(heap) :
            (heap[env].status = ERROR /\ heap'[env].status # ERROR)
            => \E w \in Workers, action \in {"provision", "start", "stop", "terminate"} :
                  HandlerStep(w, action) /\ HandlerEnv(w) = env
       /\ (\/ enqueued' # enqueued
           \/ Len(provisioning_queue') > Len(provisioning_queue)
           \/ /\ Len(provisioning_queue') = Len(provisioning_queue)
              /\ provisioning_queue' # provisioning_queue)
          => ~WorkerStep
       /\ Len(provisioning_queue') < Len(provisioning_queue)
          => provisioning_queue' = Tail(provisioning_queue)]_vars

\* C23 witness: the provision of an environment has failed, the workers
\* wait in queue.get() and the queue is empty: the failed action is not
\* under way again.
C23_Witness ==
    /\ running
    /\ Len(heap) = 1
    /\ heap[1].status = ERROR
    /\ heap[1].metadata["error"] = "start"
    /\ enqueued = 1
    /\ provisioning_queue = <<>>
    /\ \A w \in Workers : workers[w] = Idle

\* C24: allocate guards against a second call for an environment id that
\* holds a reservation, so that in every reachable state the committed
\* cpu, memory and disk are the sums over the recorded reservations.
C24_TotalsAreSumsOfReservations ==
    /\ resource_pool.allocated_cpu = ReservedTotal(resource_pool, "cpu")
    /\ resource_pool.allocated_memory = ReservedTotal(resource_pool, "memory")
    /\ resource_pool.allocated_disk = ReservedTotal(resource_pool, "disk")

\* What is left of a resource.
Free(p) ==
    [cpu |-> max_cpu_cores - p.allocated_cpu,
     memory |-> max_memory_mb - p.allocated_memory,
     disk |-> max_disk_gb - p.allocated_disk]

\* C25: can_allocate returns True exactly when none of the three requests
\* is more than what is left of its resource (a request for all that is
\* left is admitted), and it changes neither the totals nor the
\* reservations.
C25_CanAllocateIsExactAndPure ==
    [][\A cpu \in CpuRequests, memory \in MemoryRequests, disk \in DiskRequests :
         pool_can_allocate(cpu, memory, disk)
         => /\ result' = "True" <=> /\ cpu <= Free(resource_pool).cpu
                                    /\ memory <= Free(resource_pool).memory
                                    /\ disk <= Free(resource_pool).disk
            /\ result' \in {"True", "False"}
            /\ resource_pool' = resource_pool]_vars

\* C25 witness: can_allocate has admitted a request for exactly the cpu
\* and the memory that are left.
C25_Witness ==
    /\ pool_call.name = "can_allocate"
    /\ result = "True"
    /\ resource_pool.allocated_cpu > 0
    /\ pool_call.cpu = Free(resource_pool).cpu
    /\ pool_call.memory = Free(resource_pool).memory

(***************************************************************************)
(* Progress.  Each worker is one task of the event loop: when it can take  *)
(* a step (an item is in the queue and it waits in queue.get(), or the     *)
(* call it awaits has returned or raised) the loop runs it in the end.     *)
(* The calls into the provisioner always return or raise.                  *)
(***************************************************************************)
\* The steps of worker w.
WorkerNext(w) ==
    \/ _provision_environment(w) \/ provision_create_vm(w)
    \/ provision_boot(w) \/ provision_start(w)
    \/ _start_environment(w) \/ start_boot(w) \/ start_wait(w)
    \/ _stop_environment(w) \/ stop_wait(w)
    \/ _terminate_environment(w) \/ destroy_wait(w)

FairSpec == Spec /\ \A w \in Workers : WF_vars(WorkerNext(w))

\* C26: while the engine runs, every registered environment gets to
\* RUNNING or ERROR (or TERMINATED, a terminate having been asked for): no
\* environment stays in REQUESTED or PROVISIONING for ever.
C26_EveryEnvironmentSettles ==
    \A env_id \in EnvIds :
        (/\ running
         /\ env_id \in DOMAIN environments
         /\ heap[environments[env_id]].status \in {REQUESTED, PROVISIONING})
        ~> (/\ env_id \in DOMAIN environments
            /\ heap[environments[env_id]].status \in {RUNNING, ERROR, TERMINATED})

\* C26 witness: both environments were registered and have settled, one
\* RUNNING and one in ERROR, and the workers have nothing left to do.
C26_Witness ==
    /\ running
    /\ DOMAIN environments = EnvIds
    /\ {heap[environments[env_id]].status : env_id \in EnvIds} = {RUNNING, ERROR}
    /\ provisioning_queue = <<>>
    /\ \A w \in Workers : workers[w] = Idle

(***************************************************************************)
(* The managers on their own: a client creates and destroys instances      *)
(* directly.  The instances are never started, so that destroy_vm and      *)
(* destroy_container have nothing to stop and do not suspend.              *)
(***************************************************************************)
MaxInstances == 4

Kinds == {"vm", "container"}

DestroyCall(kind, instance_id) ==
    [name |-> "destroy", kind |-> kind, instance_id |-> instance_id]

\* destroy_vm / destroy_container of an instance that is not running:
\* ValueError for an id the manager does not have; otherwise the disk image
\* or the Docker container is removed (remove_ok = FALSE: that raised), the
\* port is released and the record deleted.
destroy(m, instance_id, remove_ok) ==
    IF instance_id \notin DOMAIN m.instances THEN [raised |-> "ValueError", m |-> m]
    ELSE IF ~remove_ok THEN [raised |-> "Exception", m |-> m]
    ELSE [raised |-> "None", m |-> remove_instance(m, instance_id).m]

manager_create(kind, env_id) ==
    /\ uuids < MaxInstances
    /\ uuids' = uuids + 1
    /\ IF kind = "vm"
       THEN \E disk_ok \in BOOLEAN :
              LET c == create_vm(vm_manager, env_id, uuids + 1, disk_ok)
              IN  /\ vm_manager' = c.m
                  /\ container_manager' = container_manager
                  /\ result' = IF c.ok THEN "vm_id" ELSE "Exception"
       ELSE \E docker_ok \in BOOLEAN :
              LET c == create_container(container_manager, env_id, uuids + 1, TRUE, docker_ok)
              IN  /\ container_manager' = c.m
                  /\ vm_manager' = vm_manager
                  /\ result' = IF c.ok THEN "container_id" ELSE "Exception"
    /\ pool_call' = [name |-> "create", kind |-> kind, instance_id |-> uuids + 1]
    /\ UNCHANGED <<running, workers, heap, environments, provisioning_queue, resource_pool,
                   enqueued, provision_base>>

manager_destroy(kind, instance_id) ==
    /\ \E remove_ok \in BOOLEAN :
         LET d == destroy(ManagerOf(kind), instance_id, remove_ok)
         IN  /\ IF kind = "vm"
                THEN vm_manager' = d.m /\ container_manager' = container_manager
                ELSE container_manager' = d.m /\ vm_manager' = vm_manager
             /\ result' = IF d.raised = "None" THEN "True" ELSE d.raised
    /\ pool_call' = DestroyCall(kind, instance_id)
    /\ UNCHANGED <<running, workers, heap, environments, provisioning_queue, resource_pool,
                   uuids, enqueued, provision_base>>

ManagerNext ==
    \/ \E kind \in Kinds, env_id \in EnvIds : manager_create(kind, env_id)
    \/ \E kind \in Kinds, instance_id \in 1..MaxInstances : manager_destroy(kind, instance_id)

ManagerSpec == Init /\ [][ManagerNext]_vars

\* C27: destroying an instance is idempotent in both managers.  A destroy
\* call for the instance that the call before it has just destroyed
\* returns without an error and leaves the instance tables and the
\* allocated ports as they are.
C27_DestroyIsIdempotent ==
    [][\A kind \in Kinds, instance_id \in 1..MaxInstances :
         (/\ pool_call = DestroyCall(kind, instance_id)
          /\ result = "True"
          /\ manager_destroy(kind, instance_id))
         => /\ result' = "True"
            /\ vm_manager' = vm_manager
            /\ container_manager' = container_manager]_vars

\* Worker w takes the item at the head of the queue and enters its handler.
Takes(w) ==
    \/ _provision_environment(w)
    \/ _start_environment(w)
    \/ _stop_environment(w)
    \/ _terminate_environment(w)

\* C28: the queue is one FIFO shared by the workers.  An item that is
\* put is put behind the items that wait; an item leaves the queue from
\* the head, taken by exactly one worker, which then holds the handler of
\* that item's action; and while the engine runs no item stays in the
\* queue for ever.
C28_QueueIsFifo ==
    /\ [][/\ Len(provisioning_queue') > Len(provisioning_queue)
             => /\ Len(provisioning_queue') = Len(provisioning_queue) + 1
                /\ SubSeq(provisioning_queue', 1, Len(provisioning_queue))
                       = provisioning_queue
                /\ workers' = workers
          /\ Len(provisioning_queue') < Len(provisioning_queue)
             => /\ provisioning_queue' = Tail(provisioning_queue)
                /\ Cardinality({w \in Workers : Takes(w)}) = 1
                /\ \A w \in Workers :
                       workers'[w] # workers[w]
                       => /\ Takes(w)
                          /\ workers'[w].env_id = Head(provisioning_queue).env_id
          /\ Len(provisioning_queue') = Len(provisioning_queue)
             => provisioning_queue' = provisioning_queue]_vars
    /\ \A n \in 1..(MaxOps + 1) :
          (running /\ enqueued = n /\ provisioning_queue # <<>>)
          ~> (enqueued > n \/ provisioning_queue = <<>>)

\* C28 witness: three items were put; the first two were taken, in their
\* order, by the first and the second worker, whose handlers are under
\* way, and the third waits at the head of the queue.
C28_Witness ==
    /\ running
    /\ enqueued = 3
    /\ Len(provisioning_queue) = 1
    /\ InHandler(1)
    /\ InHandler(2)
    /\ workers[3] = Idle
    /\ workers[1].env # workers[2].env

\* stop() has returned: the engine was started and is not running.
Stopped == ~running /\ \E w \in Workers : workers[w].pc # "unborn"

\* C29: after stop() has returned no worker takes or handles a work item,
\* and no record, no instance and no reservation changes any more, while
\* the public operations may go on putting items in the queue.
C29_NothingRunsAfterStop ==
    [][Stopped
       => /\ workers' = workers
          /\ \A env \in 1..Len(heap) : heap'[env] = heap[env]
          /\ resource_pool' = resource_pool
          /\ vm_manager' = vm_manager
          /\ container_manager' = container_manager
          /\ \/ provisioning_queue' = provisioning_queue
             \/ /\ Len(provisioning_queue') = Len(provisioning_queue) + 1
                /\ SubSeq(provisioning_queue', 1, Len(provisioning_queue))
                       = provisioning_queue]_vars

\* C29 witness: the engine was stopped while a handler was under way (the
\* record is left in PROVISIONING), and a public operation has put an item
\* in the queue since, which no worker takes.
C29_Witness ==
    /\ Stopped
    /\ \A w \in Workers : workers[w].pc = "cancelled"
    /\ result = "True"
    /\ provisioning_queue # <<>>
    /\ \E env \in 1..Len(heap) : heap[env].status = PROVISIONING

\* C30: a registered environment in REQUESTED has no vm_id, no container_id
\* and no streaming_port; one in RUNNING has exactly one of vm_id and
\* container_id and has a streaming_port; none has both ids.
C30_IdsFollowStatus ==
    \A env_id \in DOMAIN environments :
        LET environment == heap[environments[env_id]]
        IN  /\ environment.status = REQUESTED
               => /\ environment.vm_id = None
                  /\ environment.container_id = None
                  /\ environment.streaming_port = None
            /\ environment.status = RUNNING
               => /\ (environment.vm_id # None) # (environment.container_id # None)
                  /\ environment.streaming_port # None
            /\ ~(environment.vm_id # None /\ environment.container_id # None)

\* C31: a registered environment has the key "error" in its metadata only
\* while its status is ERROR.
C31_ErrorDetailOnlyInError ==
    \A env_id \in DOMAIN environments :
        LET environment == heap[environments[env_id]]
        IN  "error" \in DOMAIN environment.metadata => environment.status = ERROR

\* C32: each of created_at, started_at, stopped_at and terminated_at of a
\* record is written at most once: once it has a value, no step changes it.
C32_TimestampsWrittenOnce ==
    [][\A env \in 1..Len(heap) :
          \A field \in {"created_at", "started_at", "stopped_at", "terminated_at"} :
              heap[env][field] # None => heap'[env][field] = heap[env][field]]_vars

\* The keys of a record that a create_environment call on a registered id
\* may not reset.
Kept(environment) ==
    <<environment.status, environment.strategy, environment.specification,
      environment.vm_id, environment.container_id, environment.streaming_port>>

\* C33: a registered id stays registered with the record it was registered
\* with, and a create_environment call leaves the status, strategy,
\* specification, backing ids and streaming port of every registered
\* environment as they were.
C33_RecordsAreNeverReplaced ==
    [][\A env_id \in DOMAIN environments :
          /\ env_id \in DOMAIN environments'
          /\ environments'[env_id] = environments[env_id]
          /\ (/\ result' = "environment"
              /\ \E r \in Requests : create_environment(r.env_id, r.spec, r.user_id))
             => Kept(heap'[environments'[env_id]]) = Kept(heap[environments[env_id]])]_vars

\* The keys of a record that are given at creation.
Given(environment) ==
    <<environment.id, environment.user_id, environment.specification,
      environment.strategy>>

\* C34: every record keeps its id, owning user, specification and strategy:
\* they are those of the create_environment call that made the record, and
\* no step, in particular no step of a worker, changes them.
C34_GivenKeysAreImmutable ==
    /\ [](\A env \in 1..Len(heap) :
             \E r \in Requests :
                 Given(heap[env]) = <<r.env_id, r.user_id, r.spec, _determine_strategy(r.spec)>>)
    /\ [][\A env \in 1..Len(heap) : Given(heap'[env]) = Given(heap[env])]_vars

\* C34 witness: a container environment that was provisioned and stopped
\* and has failed in a later action, after handlers of three kinds have
\* written to its record.
C34_Witness ==
    /\ Len(heap) = 1
    /\ heap[1].status = ERROR
    /\ heap[1].strategy = CONTAINER_ONLY
    /\ heap[1].started_at # None
    /\ heap[1].stopped_at # None

(***************************************************************************)
(* The public read operations next to the whole engine: a client calls     *)
(* get_environment_status or list_environments and uses what it got at     *)
(* once, as the routers do.                                                *)
(***************************************************************************)
\* The user_id arguments of list_environments: no filter, or one of the
\* two users of Requests.
UserFilters == {None, 1, 2}

\* list_environments: the copies of the registered records in the order of
\* self.environments.values(), which is the order in which the ids were
\* first registered (the first record on the heap with that id), of the
\* users asked for.
RECURSIVE list_from(_, _, _, _)
list_from(registry, records, user_id, i) ==
    IF i > Len(records) THEN <<>>
    ELSE LET env_id == records[i].id
             first == \A j \in 1..(i - 1) : records[j].id # env_id
             env == registry[env_id]
         IN  (IF first /\ (user_id = None \/ records[env].user_id = user_id)
              THEN <<copy(records, env)>>
              ELSE <<>>) \o list_from(registry, records, user_id, i + 1)

list_environments(registry, records, user_id) == list_from(registry, records, user_id, 1)

\* A client awaits list_environments(user_id).
client_list_environments(user_id) ==
    /\ pool_call' = [name |-> "list_environments", user_id |-> user_id,
                     ret |-> list_environments(environments, heap, user_id)]
    /\ result' = "list"
    /\ UNCHANGED <<running, workers, heap, environments, provisioning_queue, resource_pool,
                   vm_manager, container_manager, uuids, enqueued, provision_base>>

\* The caller has read the status and the port out of the copy it got and
\* lets go of it; no await lies between the call and this.
response ==
    /\ pool_call # NoCall
    /\ pool_call' = NoCall
    /\ result' = "None"
    /\ UNCHANGED <<running, workers, heap, environments, provisioning_queue, resource_pool,
                   vm_manager, container_manager, uuids, enqueued, provision_base>>

PublicNext ==
    \/ pool_call = NoCall /\ Next
    \/ pool_call = NoCall /\ \E env_id \in EnvIds : client_get_environment_status(env_id)
    \/ pool_call = NoCall /\ \E user_id \in UserFilters : client_list_environments(user_id)
    \/ response

PublicSpec == Init /\ [][PublicNext]_vars

\* One of the five public operations that do not create an environment.
PublicOperation ==
    \/ \E env_id \in EnvIds :
          \/ start_environment(env_id)
          \/ stop_environment(env_id)
          \/ terminate_environment(env_id)
          \/ client_get_environment_status(env_id)
    \/ \E user_id \in UserFilters : client_list_environments(user_id)

\* C35: start_environment, stop_environment, terminate_environment,
\* get_environment_status and list_environments change no record, no
\* registry entry, no reservation, no instance and no worker; the queue is
\* left as it was by a rejected call and by the two reads, and gets one
\* item for the environment at its end when a call is accepted.
C35_PublicOperationsOnlyEnqueue ==
    [][((result' # "None" \/ pool_call' # NoCall) /\ PublicOperation)
       => /\ heap' = heap
          /\ environments' = environments
          /\ resource_pool' = resource_pool
          /\ vm_manager' = vm_manager
          /\ container_manager' = container_manager
          /\ workers' = workers
          /\ IF result' = "True"
             THEN \E env_id \in DOMAIN environments, action \in {"start", "stop", "terminate"} :
                     provisioning_queue' =
                         Append(provisioning_queue, [action |-> action, env_id |-> env_id])
             ELSE provisioning_queue' = provisioning_queue]_vars

\* C35 witness: a start call was accepted for a suspended environment, its
\* item is waiting in the queue, and a client has just listed the
\* environments of every user and got that environment's record.
C35_Witness ==
    /\ result = "list"
    /\ pool_call.name = "list_environments"
    /\ pool_call.user_id = None
    /\ Len(pool_call.ret) = 1
    /\ Read(pool_call.ret[1]).status = SUSPENDED
    /\ provisioning_queue # <<>>
    /\ Head(provisioning_queue).action = "start"

\* C36: after every create and destroy call, failed ones included, each
\* entry of a manager's allocated ports belongs to an instance recorded in
\* that manager; a create call that raised has left no port behind.
C36_PortsBelongToInstances ==
    \A kind \in Kinds :
        DOMAIN ManagerOf(kind).allocated_ports \subseteq DOMAIN ManagerOf(kind).instances

\* C37: every registered environment that is RUNNING or SUSPENDED has a
\* reservation in the pool, of the cpu, memory and disk of its
\* specification.
C37_RunningHoldsReservation ==
    \A env_id \in DOMAIN environments :
        LET environment == heap[environments[env_id]]
            spec == environment.specification
        IN  environment.status \in {RUNNING, SUSPENDED}
            => /\ env_id \in DOMAIN resource_pool.active_environments
               /\ resource_pool.active_environments[env_id]
                      = [cpu |-> spec.cpu_cores, memory |-> spec.memory_mb,
                         disk |-> spec.disk_gb]

\* C38: a registered environment that is TERMINATED has no instance: no
\* record of either manager carries its environment id, and the instance
\* its record names holds no streaming port.
C38_TerminatedHasNoInstance ==
    \A env_id \in DOMAIN environments :
        LET environment == heap[environments[env_id]]
        IN  environment.status = TERMINATED
            => \A kind \in Kinds :
                  /\ \A i \in DOMAIN ManagerOf(kind).instances :
                         ManagerOf(kind).instances[i].env_id # env_id
                  /\ KindOf(environment) = kind
                     => InstanceOf(environment) \notin DOMAIN ManagerOf(kind).allocated_ports

\* C39: no step of a start or a stop handler changes the resource pool,
\* whether the manager call returns or raises: the totals and every
\* reservation are after the step what they were before it.
C39_StartStopLeavePool ==
    [][\A w \in Workers :
         (\/ workers[w].pc \in {"start_boot", "start_wait", "stop_wait"}
          \/ /\ workers[w].pc = "idle"
             /\ Len(provisioning_queue') < Len(provisioning_queue))
         => \A action \in {"start", "stop"} :
              HandlerStep(w, action) => resource_pool' = resource_pool]_vars

\* C39 witness: an environment was provisioned and stopped, and its
\* start has failed: the record is in ERROR with the error of the start
\* recorded and the pool still holds the reservation made by the provision.
C39_Witness ==
    /\ Len(heap) = 1
    /\ heap[1].status = ERROR
    /\ heap[1].stopped_at # None
    /\ "error" \in DOMAIN heap[1].metadata
    /\ heap[1].metadata["error"] = "start"
    /\ heap[1].id \in DOMAIN resource_pool.active_environments
    /\ resource_pool.allocated_cpu = heap[1].specification.cpu_cores

\* The streaming ports of the instances recorded in a manager.
PortOf(kind, instance_id) == ManagerOf(kind).instances[instance_id].streaming_port

\* C40: no two instances that exist at the same time have the same
\* streaming port.  In each manager the allocated ports are injective and
\* every recorded instance has the port allocated to it, out of the
\* manager's pool; the pools of the two managers are disjoint.
C40_PortsAreExclusive ==
    /\ \A kind \in Kinds :
          LET m == ManagerOf(kind)
              pool == IF kind = "vm" THEN vm_streaming_port_pool
                      ELSE container_streaming_port_pool
          IN  /\ \A i, j \in DOMAIN m.allocated_ports :
                     i # j => m.allocated_ports[i] # m.allocated_ports[j]
              /\ \A i \in DOMAIN m.instances :
                     /\ i \in DOMAIN m.allocated_ports
                     /\ PortOf(kind, i) = m.allocated_ports[i]
                     /\ PortOf(kind, i) \in pool
    /\ vm_streaming_port_pool \cap container_streaming_port_pool = {}
    /\ \A i \in DOMAIN vm_manager.instances, j \in DOMAIN container_manager.instances :
           PortOf("vm", i) # PortOf("container", j)

\* C40 witness: after creates and a destroy two VMs and a container exist,
\* the younger VM holding the port that the destroyed VM gave back, which
\* is lower than the port of the older one.
C40_Witness ==
    /\ DOMAIN container_manager.instances # {}
    /\ \E i, j \in DOMAIN vm_manager.instances :
           /\ i < j
           /\ PortOf("vm", j) < PortOf("vm", i)
           /\ PortOf("vm", j) = streaming_port_range_start

====
